---- MODULE Spec2Model ----
(***************************************************************************)
(* Model of the refactoring-dataset pipeline of msr-mining-challenge-2026. *)
(*                                                                         *)
(* The repository is a set of batch scripts that read tables and JSON      *)
(* documents from data/processed and write derived tables back.  A state   *)
(* of the model is one run of one script: the files on disk, the script    *)
(* that runs, its position (pc), its local data frames (mem), its exit     *)
(* status and its summary log.                                             *)
(*                                                                         *)
(* A data frame is a record [columns, rows]: the set of column names and   *)
(* the sequence of rows, each row a function from the columns to values.   *)
(* A string that the code lower-cases or strips (a commit sha) is a tuple  *)
(* of one-character strings, so that the conversion is computed.           *)
(***************************************************************************)
EXTENDS Integers, Sequences, FiniteSets, TLC

VARIABLES
    script,   \* the script this run executes
    pc,       \* its position
    disk,     \* file name -> [exists, df] (tables) ; JSON documents in df.rows
    mem,      \* local variables of the running script
    status,   \* "running", "ok", or the exception / exit that ended the run
    lines     \* what the run printed in its summary (tagged records)

vars == <<script, pc, disk, mem, status, lines>>

----------------------------------------------------------------------------
(* Bounds of the model *)

MaxRows == 2      \* rows of an input metadata / candidate table
MaxEntries == 2   \* commit entries of a tool-output document
MaxRefs == 2      \* refactoring entries of one commit entry

----------------------------------------------------------------------------
(* Generic helpers *)

Range(s) == {s[i] : i \in DOMAIN s}

SeqsUpTo(S, n) == UNION {[1..k -> S] : k \in 0..n}

\* the sum of s[lo..hi], by halves
RECURSIVE SumRange(_, _, _)
SumRange(s, lo, hi) ==
    IF lo > hi THEN 0
    ELSE IF lo = hi THEN s[lo]
    ELSE LET mid == (lo + hi) \div 2
         IN SumRange(s, lo, mid) + SumRange(s, mid + 1, hi)

SumSeq(s) == SumRange(s, 1, Len(s))

\* the concatenation of ss[lo..hi], by halves
RECURSIVE FlattenRange(_, _, _)
FlattenRange(ss, lo, hi) ==
    IF lo > hi THEN <<>>
    ELSE IF lo = hi THEN ss[lo]
    ELSE LET mid == (lo + hi) \div 2
         IN FlattenRange(ss, lo, mid) \o FlattenRange(ss, mid + 1, hi)

FlattenSeq(ss) == FlattenRange(ss, 1, Len(ss))

\* the subsequence of s at the positions of lo..hi satisfying Keep, in order
RECURSIVE FilterRange(_, _, _, _)
FilterRange(s, Keep(_), lo, hi) ==
    IF lo > hi THEN <<>>
    ELSE IF lo = hi THEN (IF Keep(lo) THEN <<s[lo]>> ELSE <<>>)
    ELSE LET mid == (lo + hi) \div 2
         IN FilterRange(s, Keep, lo, mid) \o FilterRange(s, Keep, mid + 1, hi)

FilterIdx(s, Keep(_)) == FilterRange(s, Keep, 1, Len(s))

----------------------------------------------------------------------------
(* Python / pandas values *)

NA == "<NA>"            \* pd.NA / NaN / None in a scalar cell
NAList == <<"<NA>">>    \* pd.NA in a list-valued cell
NoneType == "<None>"    \* Python None as a refactoring type label

\* str.lower() on one character
LowerChar(c) ==
    CASE c = "A" -> "a"
      [] c = "B" -> "b"
      [] c = "C" -> "c"
      [] c = "N" -> "n"
      [] OTHER -> c

\* str.lower()
Lower(s) == [i \in DOMAIN s |-> LowerChar(s[i])]

RECURSIVE LStrip(_)
LStrip(s) == IF s # <<>> /\ s[1] = " " THEN LStrip(Tail(s)) ELSE s

RECURSIVE RStrip(_)
RStrip(s) ==
    IF s # <<>> /\ s[Len(s)] = " " THEN RStrip(SubSeq(s, 1, Len(s) - 1)) ELSE s

\* str.strip()
Strip(s) == RStrip(LStrip(s))

\* JSON values: [k |-> "absent" | "null" | "str" | "list", v |-> payload]
JAbsent == [k |-> "absent", v |-> <<>>]
JNull == [k |-> "null", v |-> <<>>]
JStr(s) == [k |-> "str", v |-> s]
JList(l) == [k |-> "list", v |-> l]

\* str(x) of a JSON scalar that dict.get(key, "") returned
PyStr(j) ==
    CASE j.k = "absent" -> <<>>
      [] j.k = "null" -> <<"N", "o", "n", "e">>
      [] OTHER -> j.v

\* the type labels of the model, in the order of sorted()
TypeOrder ==
    <<"", "Other", "T01", "T02", "T03", "T04", "T05", "T06", "T07", "T08",
      "T09", "T10", "T11", "T12", "T13", "T14", "T15", "X", "Y">>

TypePosition ==
    [t \in Range(TypeOrder) |-> CHOOSE i \in DOMAIN TypeOrder : TypeOrder[i] = t]

\* the position of a type label under sorted(); a missing label comes last
TypeRank(t) ==
    IF t \in DOMAIN TypePosition THEN TypePosition[t] ELSE Len(TypeOrder) + 1

RECURSIVE SortedTypes(_)
SortedTypes(S) ==
    IF S = {} THEN <<>>
    ELSE LET m == CHOOSE x \in S : \A y \in S : TypeRank(x) <= TypeRank(y)
         IN <<m>> \o SortedTypes(S \ {m})

----------------------------------------------------------------------------
(* Data frames *)

EmptyDF == [columns |-> {}, rows |-> <<>>]

DF(cols, rows) == [columns |-> cols, rows |-> rows]

\* pd.DataFrame(list_of_dicts): no rows gives a frame without columns
DataFrame(cols, rows) == IF rows = <<>> THEN EmptyDF ELSE DF(cols, rows)

NRows(df) == Len(df.rows)

ColValues(df, c) == {df.rows[i][c] : i \in 1..NRows(df)}

\* df[c] = f(row) for every row
WithColumn(df, c, F(_)) ==
    DF(df.columns \cup {c},
       [i \in 1..NRows(df) |->
          [x \in df.columns \cup {c} |->
             IF x = c THEN F(df.rows[i]) ELSE df.rows[i][x]]])

\* df[list(cols)]
Project(df, cols) ==
    DF(cols, [i \in 1..NRows(df) |-> [x \in cols |-> df.rows[i][x]]])

\* df.drop_duplicates(subset=...): keeps the first row of every key
DropDuplicates(df, subset) ==
    DF(df.columns,
       FilterIdx(df.rows,
                 LAMBDA i : ~\E j \in 1..(i - 1) :
                     \A c \in subset : df.rows[j][c] = df.rows[i][c]))

----------------------------------------------------------------------------
(* Typed missing values: what a NaN cell of each column is in the model *)

IntColumns == {"refactoring_count", "pr_id", "number"}
ListColumns == {"unique_types", "refactoring_types", "full_name", "sha", "commit_sha"}
BoolColumns == {"has_refactoring"}

NaInt == 0 - 1

\* NaN in a boolean column counts as False in .sum() and under fillna(False)
NAOf(c) ==
    CASE c \in IntColumns -> NaInt
      [] c \in ListColumns -> NAList
      [] c \in BoolColumns -> FALSE
      [] OTHER -> NA

\* df[c].nunique()
NUnique(df, c) == Cardinality(ColValues(df, c) \ {NAOf(c)})

\* pd.concat([a, b], ignore_index=True) with the typed missing values
ConcatFrames(a, b) ==
    LET cols == a.columns \cup b.columns
        Widen(df, r) == [x \in cols |-> IF x \in df.columns THEN r[x] ELSE NAOf(x)]
    IN DF(cols,
          [i \in 1..NRows(a) |-> Widen(a, a.rows[i])] \o
          [i \in 1..NRows(b) |-> Widen(b, b.rows[i])])

\* one joined row: the left row's cells, then the right row's
JoinRow(l, r, lr, rr) ==
    [x \in l.columns \cup r.columns |-> IF x \in l.columns THEN lr[x] ELSE rr[x]]

\* left.merge(right, on=on, how="inner"): left order, then right order
MergeInner(l, r, on) ==
    DF(l.columns \cup r.columns,
       FlattenSeq([i \in 1..NRows(l) |->
          LET m == FilterIdx(r.rows, LAMBDA j : r.rows[j][on] = l.rows[i][on])
          IN [k \in 1..Len(m) |-> JoinRow(l, r, l.rows[i], m[k])]]))

\* left.merge(right, on=on, how="left"): unmatched left rows get NaN cells
MergeLeft(l, r, on) ==
    DF(l.columns \cup r.columns,
       FlattenSeq([i \in 1..NRows(l) |->
          LET m == FilterIdx(r.rows, LAMBDA j : r.rows[j][on] = l.rows[i][on])
          IN IF m = <<>>
             THEN <<JoinRow(l, r, l.rows[i], [x \in r.columns |-> NAOf(x)])>>
             ELSE [k \in 1..Len(m) |-> JoinRow(l, r, l.rows[i], m[k])]]))

\* df["sha"] = df["sha"].astype(str).str.lower().str.strip()
NormShaColumn(df, c) ==
    IF c \in df.columns
    THEN WithColumn(df, c, LAMBDA row : Strip(Lower(row[c])))
    ELSE df

----------------------------------------------------------------------------
(* Files of data/processed *)

PR_COMMITS == "baseline_pr_commits.parquet"
RM_JSON_BASELINE == "refminer_all_baseline.json"
BASELINE_COMMITS_OUT == "baseline_refactoring_commits.parquet"
BASELINE_REFACT_OUT == "baseline_refactorings.parquet"
NORMALIZED_OUT == "baseline_refactoring_commits_normalized.parquet"
HUMAN_REFACTORING_COMMITS == "human_refactoring_commits.parquet"
UPDATED_HUMAN == "human_refactoring_commits_normalized.parquet"
RM_JSON == "refminer_all.json"
META_PARQUET == "java_agentic_pr_commits_final.parquet"
COMMITS_OUT == "refactoring_dataset_commits.parquet"
REFACT_OUT == "refactoring_dataset_refactorings.parquet"
HUMAN_PR_COMMITS == "java_baseline_pr_commits.parquet"
AGENTIC_DEDUPED == "refactoring_dataset_commits_deduped.parquet"
OUTPUT_AGENTIC == "agentic_refactorings.parquet"

Files ==
    {PR_COMMITS, RM_JSON_BASELINE, BASELINE_COMMITS_OUT, BASELINE_REFACT_OUT,
     NORMALIZED_OUT, HUMAN_REFACTORING_COMMITS, UPDATED_HUMAN, RM_JSON,
     META_PARQUET, COMMITS_OUT, REFACT_OUT, HUMAN_PR_COMMITS, AGENTIC_DEDUPED,
     OUTPUT_AGENTIC}

NoFile == [exists |-> FALSE, df |-> EmptyDF]
File(df) == [exists |-> TRUE, df |-> df]
EmptyDisk == [f \in Files |-> NoFile]

\* df.to_parquet(path)
ToParquet(d, path, df) == [d EXCEPT ![path] = File(df)]

----------------------------------------------------------------------------
(* Record Normalizer of the Human builders:                                *)
(* build_baseline_dataset.py and build_human_refactoring_commits.py        *)

PrCols == {"sha", "pr_id", "number", "full_name"}
RmCols == {"sha", "refactoring_count", "unique_types", "has_refactoring"}
RefCols == {"commit_sha", "refactoring_type"}
JsonCols == {"sha1", "refactorings"}

\* sha = str(c.get("sha1", "")).strip().lower()
EntrySha(c) == Lower(Strip(PyStr(c.sha1)))

\* refs = c.get("refactorings", []) or []
EntryRefs(c) == IF c.refactorings.k = "list" THEN c.refactorings.v ELSE <<>>

\* r.get("type") is truthy
HasTypeLabel(r) == r.type.k = "str" /\ r.type.v # ""

\* types = sorted({r.get("type") for r in refs if r.get("type")})
EntryTypes(c) ==
    SortedTypes({r.type.v : r \in {x \in Range(EntryRefs(c)) : HasTypeLabel(x)}})

\* ref.get("type", "")
RefTypeCell(r) ==
    CASE r.type.k = "absent" -> ""
      [] r.type.k = "null" -> NA
      [] OTHER -> r.type.v

\* the entries without refactorings skipped too
KeptEntriesWithRefs(commits) ==
    FilterIdx(commits, LAMBDA i : EntrySha(commits[i]) # <<>> /\ EntryRefs(commits[i]) # <<>>)

\* the entries the loop does not skip (if not sha: continue)
KeptEntries(commits) == FilterIdx(commits, LAMBDA i : EntrySha(commits[i]) # <<>>)

\* the count taken from the type set instead of the refactoring list
RmCommitRowTypeCount(c) ==
    [sha |-> EntrySha(c),
     refactoring_count |-> Len(EntryTypes(c)),
     unique_types |-> EntryTypes(c),
     has_refactoring |-> Len(EntryRefs(c)) > 0]

RmCommitRow(c) ==
    [sha |-> EntrySha(c),
     refactoring_count |-> Len(EntryRefs(c)),
     unique_types |-> EntryTypes(c),
     has_refactoring |-> Len(EntryRefs(c)) > 0]

\* rm_commits, one dict per kept entry
RmCommits(commits) ==
    LET kept == KeptEntries(commits)
    IN [i \in 1..Len(kept) |-> RmCommitRow(kept[i])]

\* ref_rows, one dict per refactoring of a kept entry
RefRows(commits) ==
    LET kept == KeptEntries(commits)
    IN FlattenSeq([i \in 1..Len(kept) |->
          LET refs == EntryRefs(kept[i])
          IN [k \in 1..Len(refs) |->
                [commit_sha |-> EntrySha(kept[i]),
                 refactoring_type |-> RefTypeCell(refs[k])]]])

\* rm_df = pd.DataFrame(rm_commits).drop_duplicates(subset=["sha"])
RmDf(commits) == DropDuplicates(DataFrame(RmCols, RmCommits(commits)), {"sha"})

\* ref_df = pd.DataFrame(ref_rows)
RefDf(commits) == DataFrame(RefCols, RefRows(commits))

----------------------------------------------------------------------------
(* Metadata Joiner of the Human builders *)

MergedCols == PrCols \cup RmCols \cup {"owner", "repo", "agent"}

OwnerOf(full_name) == IF Len(full_name) >= 1 THEN full_name[1] ELSE NA
RepoOf(full_name) == IF Len(full_name) >= 2 THEN full_name[2] ELSE NA

\* the join written with how="left"
HumanJoinLeft(pr_df, rm_df) == MergeLeft(pr_df, rm_df, "sha")

\* merged = pr_df.merge(rm_df, on="sha", how="inner")
HumanJoin(pr_df, rm_df) == MergeInner(pr_df, rm_df, "sha")

\* owner / repo / agent columns and the schema clean-up that follow the merge
HumanSchema(m) ==
    LET a == IF "full_name" \in m.columns
             THEN WithColumn(WithColumn(m, "owner", LAMBDA r : OwnerOf(r.full_name)),
                             "repo", LAMBDA r : RepoOf(r.full_name))
             ELSE WithColumn(WithColumn(m, "owner", LAMBDA r : NA),
                             "repo", LAMBDA r : NA)
        b == WithColumn(a, "agent", LAMBDA r : "Human")
        c == WithColumn(b, "refactoring_count",
                        LAMBDA r : IF r.refactoring_count = NaInt THEN 0
                                   ELSE r.refactoring_count)
        d == WithColumn(c, "unique_types",
                        LAMBDA r : IF r.unique_types = NAList THEN <<>>
                                   ELSE r.unique_types)
    IN d

\* the rows collapsed by commit alone
HumanDedupeBySha(m) == DropDuplicates(m, {"sha"})

\* merged = merged.drop_duplicates(subset=["sha", "pr_id", "agent"])
HumanDedupe(m) == DropDuplicates(m, {"sha", "pr_id", "agent"})

\* the analyzed Human commit table
Merged(pr_df, rm_df) == HumanDedupe(HumanSchema(HumanJoin(pr_df, rm_df)))

----------------------------------------------------------------------------
(* Completeness Reconciler: the normalization step of                      *)
(* build_baseline_dataset.py and normalize_human_refactoring_commits.py    *)

\* for col, default in {...}.items(): if col not in human_df.columns: ...
EnsureColumns(human_df, typecol) ==
    LET a == IF "has_refactoring" \in human_df.columns THEN human_df
             ELSE WithColumn(human_df, "has_refactoring", LAMBDA r : FALSE)
        b == IF typecol \in a.columns THEN a
             ELSE WithColumn(a, typecol, LAMBDA r : <<>>)
        c == IF "refactoring_count" \in b.columns THEN b
             ELSE WithColumn(b, "refactoring_count", LAMBDA r : 0)
    IN c

\* missing = baseline_df[~baseline_df["sha"].isin(human_df["sha"])]
Missing(baseline_df, human_df) ==
    DF(baseline_df.columns,
       FilterIdx(baseline_df.rows,
                 LAMBDA i : baseline_df.rows[i]["sha"] \notin ColValues(human_df, "sha")))

\* the value a placeholder row gets in a required column it does not carry
PlaceholderCell(col, typecol) ==
    CASE col = "has_refactoring" -> FALSE
      [] col = typecol -> <<>>
      [] col = "refactoring_count" -> 0
      [] OTHER -> NAOf(col)

\* missing_df = missing[carry_cols].copy(), then the required columns filled
MissingDf(missing, human_df, typecol) ==
    LET required_cols == human_df.columns
        carry_cols == missing.columns \cap required_cols
    IN DF(required_cols,
          [i \in 1..NRows(missing) |->
             [x \in required_cols |->
                IF x \in carry_cols THEN missing.rows[i][x]
                ELSE PlaceholderCell(x, typecol)]])

\* x if isinstance(x, list) else []
ListOrEmpty(v) == IF v = NAList THEN <<>> ELSE v

\* updated_df = pd.concat([human_df, missing_df]) and the clean-up after it
UpdatedDf(human_df, missing_df, typecol) ==
    LET u == ConcatFrames(human_df, missing_df)
    IN IF typecol \in u.columns
       THEN WithColumn(u, typecol, LAMBDA r : ListOrEmpty(r[typecol]))
       ELSE u

\* the whole reconciler, from the two tables it reads
Reconcile(baseline_df, human_df0, typecol) ==
    LET human_df == EnsureColumns(human_df0, typecol)
        missing == Missing(baseline_df, human_df)
    IN UpdatedDf(human_df, MissingDf(missing, human_df, typecol), typecol)

----------------------------------------------------------------------------
(* Runs: local variables of a script, and how a run ends *)

Mem0 ==
    [pr_df |-> EmptyDF, rm_data |-> <<>>, rm_df |-> EmptyDF, ref_df |-> EmptyDF,
     merged |-> EmptyDF, baseline_df |-> EmptyDF, human_df |-> EmptyDF,
     missing_df |-> EmptyDF, updated_df |-> EmptyDF,
     meta |-> EmptyDF, agg |-> EmptyDF, commits |-> EmptyDF, ref_enriched |-> EmptyDF,
     agentic |-> EmptyDF, agentic_ref |-> EmptyDF, human |-> EmptyDF,
     human_ref |-> EmptyDF, human_pr |-> EmptyDF, combined |-> EmptyDF,
     per_agent |-> EmptyDF, per_project |-> EmptyDF, ref_events |-> EmptyDF,
     ref_types_by_dataset |-> EmptyDF, ref_types_by_agent |-> EmptyDF,
     ref_types_top15 |-> EmptyDF, proj_summary |-> EmptyDF, table_commits |-> EmptyDF,
     df_agentic |-> EmptyDF, df_baseline |-> EmptyDF,
     scipy |-> "untried", summary |-> [written |-> FALSE, text |-> <<>>],
     human_pr_total |-> 0, human_analyzed_total |-> 0, human_analyzed_with_ref |-> 0]

Running(s, at) == script = s /\ pc = at /\ status = "running"

\* the run ends here: normally ("ok") or with the named exception / exit
Ends(how) == pc' = "exit" /\ status' = how

Goes(to) == pc' = to /\ status' = status

----------------------------------------------------------------------------
(* Rates as the scripts print them *)

\* f"{num/den*100:.2f}" in hundredths of a percent (25.00% is 2500); den > 0
Pct2(num, den) == (num * 20000 + den) \div (2 * den)

\* df["has_refactoring"].sum()
CountHasRefactoring(df) ==
    Cardinality({i \in 1..NRows(df) : df.rows[i]["has_refactoring"]})

\* a printed rate "num/den = pct%"; na is TRUE when the line says "n/a" instead
RateLine(what, num, den, pct, na) ==
    [what |-> what, num |-> num, den |-> den, pct |-> pct, na |-> na]

\* a printed count
CountLine(what, n) == RateLine(what, n, NaInt, NaInt, FALSE)

PrintLine(line) == lines' = Append(lines, line)

\* f"{df['has_refactoring'].mean() * 100:.2f}%": the mean of no rows is NaN,
\* printed as "nan%"
MeanRateLine(what, df) ==
    IF NRows(df) = 0
    THEN RateLine(what, 0, 0, NaInt, TRUE)
    ELSE RateLine(what, CountHasRefactoring(df), NRows(df),
                  Pct2(CountHasRefactoring(df), NRows(df)), FALSE)

----------------------------------------------------------------------------
(* build_baseline_dataset.py *)

BB == "build_baseline_dataset.py"

BB_Load ==
    /\ Running(BB, "load")
    /\ IF ~disk[PR_COMMITS].exists \/ ~disk[RM_JSON_BASELINE].exists
       THEN Ends("SystemExit") /\ UNCHANGED mem
       ELSE IF "sha" \notin disk[PR_COMMITS].df.columns
            THEN Ends("KeyError") /\ UNCHANGED mem   \* pr_df["sha"]
            ELSE /\ Goes("parse")
                 /\ mem' = [mem EXCEPT
                      !.pr_df = NormShaColumn(disk[PR_COMMITS].df, "sha"),
                      !.rm_data = disk[RM_JSON_BASELINE].df.rows]
    /\ UNCHANGED <<script, disk, lines>>

BB_Parse ==
    /\ Running(BB, "parse")
    /\ IF RmCommits(mem.rm_data) = <<>>
       THEN Ends("KeyError") /\ UNCHANGED mem   \* rm_df['has_refactoring'] of a frame without columns
       ELSE /\ Goes("merge")
            /\ mem' = [mem EXCEPT !.rm_df = RmDf(mem.rm_data),
                                  !.ref_df = RefDf(mem.rm_data)]
    /\ UNCHANGED <<script, disk, lines>>

BB_Merge ==
    /\ Running(BB, "merge")
    /\ Goes("write")
    /\ mem' = [mem EXCEPT !.merged = Merged(mem.pr_df, mem.rm_df)]
    /\ UNCHANGED <<script, disk, lines>>

BB_Write ==
    /\ Running(BB, "write")
    /\ Goes("normalize")
    /\ disk' = ToParquet(ToParquet(disk, BASELINE_COMMITS_OUT, mem.merged),
                         BASELINE_REFACT_OUT, mem.ref_df)
    /\ UNCHANGED <<script, mem, lines>>

BB_Normalize ==
    /\ Running(BB, "normalize")
    /\ Goes("summary")
    /\ LET human_df == EnsureColumns(mem.merged, "unique_types")
           missing == Missing(mem.pr_df, human_df)
           missing_df == MissingDf(missing, human_df, "unique_types")
           updated_df == UpdatedDf(human_df, missing_df, "unique_types")
       IN /\ mem' = [mem EXCEPT !.baseline_df = mem.pr_df, !.human_df = human_df,
                                !.missing_df = missing_df, !.updated_df = updated_df]
          /\ disk' = ToParquet(disk, NORMALIZED_OUT, updated_df)
          /\ PrintLine(MeanRateLine("normalized_rate", updated_df))
    /\ UNCHANGED script

BB_Summary ==
    /\ Running(BB, "summary")
    /\ IF "commit_sha" \in mem.ref_df.columns
       THEN Ends("ok")
       ELSE Ends("KeyError")                    \* ref_df['commit_sha'] of a frame without columns
    /\ UNCHANGED <<script, disk, mem, lines>>

----------------------------------------------------------------------------
(* build_human_refactoring_commits.py *)

BH == "build_human_refactoring_commits.py"

BH_Load ==
    /\ Running(BH, "load")
    /\ IF ~disk[PR_COMMITS].exists \/ ~disk[RM_JSON_BASELINE].exists
       THEN Ends("SystemExit") /\ UNCHANGED mem
       ELSE /\ Goes("parse")
            /\ mem' = [mem EXCEPT
                 !.pr_df = NormShaColumn(disk[PR_COMMITS].df, "sha"),
                 !.rm_data = disk[RM_JSON_BASELINE].df.rows]
    /\ UNCHANGED <<script, disk, lines>>

BH_Parse ==
    /\ Running(BH, "parse")
    /\ IF RmCommits(mem.rm_data) = <<>>
       THEN Ends("KeyError") /\ UNCHANGED mem   \* rm_df['has_refactoring'] of a frame without columns
       ELSE /\ Goes("merge")
            /\ mem' = [mem EXCEPT !.rm_df = RmDf(mem.rm_data)]
    /\ UNCHANGED <<script, disk, lines>>

BH_Merge ==
    /\ Running(BH, "merge")
    /\ Goes("summary")
    /\ mem' = [mem EXCEPT !.merged = Merged(mem.pr_df, mem.rm_df)]
    /\ UNCHANGED <<script, disk, lines>>

\* total = len(merged); with_ref = ...; print(f"... ({with_ref/total*100:.2f}%)")
BH_Summary ==
    /\ Running(BH, "summary")
    /\ LET total == NRows(mem.merged)
           with_ref == CountHasRefactoring(mem.merged)
       IN IF total = 0
          THEN Ends("ZeroDivisionError") /\ UNCHANGED lines
          ELSE /\ Goes("write")
               /\ PrintLine(RateLine("human_rate", with_ref, total,
                                      Pct2(with_ref, total), FALSE))
    /\ UNCHANGED <<script, disk, mem>>

BH_Write ==
    /\ Running(BH, "write")
    /\ Ends("ok")
    /\ disk' = ToParquet(disk, HUMAN_REFACTORING_COMMITS, mem.merged)
    /\ UNCHANGED <<script, mem, lines>>

\* what a completed run of the script leaves in human_refactoring_commits.parquet
BuildHumanOutput(pr_file, commits) == Merged(NormShaColumn(pr_file, "sha"), RmDf(commits))

----------------------------------------------------------------------------
(* normalize_human_refactoring_commits.py *)

NH == "normalize_human_refactoring_commits.py"

NH_Load ==
    /\ Running(NH, "load")
    /\ IF ~disk[PR_COMMITS].exists \/ ~disk[HUMAN_REFACTORING_COMMITS].exists
       THEN Ends("FileNotFoundError") /\ UNCHANGED mem
       ELSE /\ Goes("normalize")
            /\ mem' = [mem EXCEPT
                 !.baseline_df = disk[PR_COMMITS].df,
                 !.human_df = disk[HUMAN_REFACTORING_COMMITS].df]
    /\ UNCHANGED <<script, disk, lines>>

NH_Normalize ==
    /\ Running(NH, "normalize")
    /\ Goes("write")
    /\ LET human_df == EnsureColumns(mem.human_df, "refactoring_types")
           missing == Missing(mem.baseline_df, human_df)
           missing_df == MissingDf(missing, human_df, "refactoring_types")
       IN mem' = [mem EXCEPT
                    !.human_df = human_df, !.missing_df = missing_df,
                    !.updated_df = UpdatedDf(human_df, missing_df, "refactoring_types")]
    /\ UNCHANGED <<script, disk, lines>>

NH_Write ==
    /\ Running(NH, "write")
    /\ Ends("ok")
    /\ disk' = ToParquet(disk, UPDATED_HUMAN, mem.updated_df)
    /\ PrintLine(MeanRateLine("normalized_rate", mem.updated_df))
    /\ UNCHANGED <<script, mem>>

----------------------------------------------------------------------------
(* Inputs of the Human builders *)

\* the project of a commit: a commit lives in one repository
ProjectOfSha(sha) == IF Lower(Strip(sha)) = <<"a">> THEN <<"o1", "r1">> ELSE <<"o2", "r2">>

PrRow(sha, pr_id) ==
    [sha |-> sha, pr_id |-> pr_id, number |-> 100 + pr_id, full_name |-> ProjectOfSha(sha)]

\* rows a candidate table is drawn from: a commit under two PRs, in two letter cases
PrRowValues == {PrRow(s, p) : s \in {<<"a">>, <<"A">>, <<"b">>}, p \in {1, 2}}

PrTables(n) == {DF(PrCols, rows) : rows \in SeqsUpTo(PrRowValues, n)}

Ref(type) == [type |-> type]

\* refactoring lists: none, one entry without a type label, and n entries
\* that are all of type X or end in type Y or in a null type
RefLists(n) ==
    {<<>>, <<Ref(JNull)>>} \cup
    {[i \in 1..n |-> IF i < n THEN Ref(JStr("X")) ELSE Ref(last)] :
         last \in {JStr("X"), JStr("Y"), JNull}}

Entry(sha1, refs) == [sha1 |-> sha1, refactorings |-> refs]

EntryValues(n) ==
    {Entry(s, r) : s \in {JStr(<<"a">>), JStr(<<"B">>), JAbsent},
                   r \in {JList(l) : l \in RefLists(n)} \cup {JNull}}

Documents(m, n) == {DF(JsonCols, es) : es \in SeqsUpTo(EntryValues(n), m)}

\* the end-to-end scenario of the specification: {a: 2 events of type X, b: 0 events}, candidates {a, b, c}
ScenarioDocument ==
    DF(JsonCols, <<Entry(JStr(<<"a">>), JList(<<Ref(JStr("X")), Ref(JStr("X"))>>)),
                   Entry(JStr(<<"b">>), JList(<<>>))>>)

ScenarioCandidates ==
    DF(PrCols, <<PrRow(<<"a">>, 1), PrRow(<<"b">>, 1), PrRow(<<"c">>, 2)>>)

\* small pools that the other input is crossed with
FewPrTables ==
    {DF(PrCols, <<>>), DF(PrCols, <<PrRow(<<"a">>, 1)>>),
     DF(PrCols, <<PrRow(<<"a">>, 1), PrRow(<<"a">>, 2), PrRow(<<"b">>, 1)>>),
     ScenarioCandidates}

FewDocuments ==
    {DF(JsonCols, <<>>),
     DF(JsonCols, <<Entry(JStr(<<"a">>), JList(<<Ref(JStr("X"))>>))>>),
     DF(JsonCols, <<Entry(JStr(<<"B">>), JList(<<>>)),
                    Entry(JStr(<<"a">>), JList(<<Ref(JStr("X")), Ref(JStr("Y"))>>))>>),
     ScenarioDocument}

\* documents whose first entry lacks an identifier (sha1 missing, null, empty
\* or blank) and carries a refactoring, followed by an entry of commit a
MalformedDocuments ==
    {DF(JsonCols, <<Entry(s, JList(<<Ref(JStr("Y"))>>)),
                    Entry(JStr(<<"a">>), JList(<<Ref(JStr("X"))>>))>>) :
        s \in {JAbsent, JNull, JStr(<<>>), JStr(<<" ">>)}}

\* the pairs (candidate table, tool-output document) the Human runs start from
HumanInputs ==
    (PrTables(MaxRows) \X FewDocuments) \cup
    (FewPrTables \X MalformedDocuments) \cup
    (FewPrTables \X Documents(MaxEntries, MaxRefs)) \cup
    {<<ScenarioCandidates, ScenarioDocument>>}

HumanScripts == {BB, BH, NH}

HumanDisk(s, pr, doc) ==
    LET raw == [EmptyDisk EXCEPT ![PR_COMMITS] = File(pr),
                                 ![RM_JSON_BASELINE] = File(doc)]
    IN IF s = NH /\ RmCommits(doc.rows) # <<>> /\ NRows(BuildHumanOutput(pr, doc.rows)) > 0
       THEN ToParquet(raw, HUMAN_REFACTORING_COMMITS, BuildHumanOutput(pr, doc.rows))
       ELSE raw

----------------------------------------------------------------------------
(* build_final_dataset.py (the Agent builder) *)

BF == "build_final_dataset.py"

MetaCols == {"sha", "pr_id", "number", "full_name", "agent"}
AggCols == {"sha", "refactoring_count", "unique_types", "has_refactoring"}
AgentRefCols == {"sha", "refactoring_type"}
EnrichCols == {"sha", "pr_id", "number", "full_name", "owner", "repo", "agent"}

\* commit_sha = c.get("sha1"); if not commit_sha: continue
AgentKept(commits) ==
    FilterIdx(commits, LAMBDA i : commits[i].sha1.k = "str" /\ commits[i].sha1.v # <<>>)

\* ref_type = ref.get("type")
AgentTypeCell(r) == IF r.type.k = "str" THEN r.type.v ELSE NA

\* ref_rows of the flatten loop; _safe_list(None) is []
AgentRefRows(commits) ==
    LET kept == AgentKept(commits)
    IN FlattenSeq([i \in 1..Len(kept) |->
          LET refs == EntryRefs(kept[i])
          IN [k \in 1..Len(refs) |->
                [sha |-> kept[i].sha1.v, refactoring_type |-> AgentTypeCell(refs[k])]]])

\* the refactoring_type cells of the events of one sha
TypeCellsOf(ref_df, sha) ==
    {ref_df.rows[i]["refactoring_type"] :
        i \in {j \in 1..NRows(ref_df) : ref_df.rows[j]["sha"] = sha}}

\* sorted(set(s)) compares None with str when both occur: TypeError
AggRaises(ref_df) ==
    \E sha \in ColValues(ref_df, "sha") :
        NA \in TypeCellsOf(ref_df, sha) /\ TypeCellsOf(ref_df, sha) # {NA}

\* one row of ref_df.groupby("sha").agg(count of refactoring_type, sorted(set(s)))
AggRow(ref_df, sha) ==
    [sha |-> sha,
     refactoring_count |->
        Cardinality({i \in 1..NRows(ref_df) :
            ref_df.rows[i]["sha"] = sha /\ ref_df.rows[i]["refactoring_type"] # NA}),
     unique_types |->
        SortedTypes({IF t = NA THEN NoneType ELSE t : t \in TypeCellsOf(ref_df, sha)}),
     has_refactoring |-> TRUE]

\* agg: one row per sha of ref_df (its row order does not survive the merge)
Agg(ref_df) ==
    LET firsts == DropDuplicates(ref_df, {"sha"})
    IN DF(AggCols, [i \in 1..NRows(firsts) |-> AggRow(ref_df, firsts.rows[i]["sha"])])

\* commits = meta.merge(agg, on="sha", how="left")
AgentJoin(meta, agg) == MergeLeft(meta, agg, "sha")

\* the fillna / list clean-up and the owner, repo columns after the merge
AgentSchema(m) ==
    LET a == WithColumn(m, "refactoring_count",
                        LAMBDA r : IF r.refactoring_count = NaInt THEN 0
                                   ELSE r.refactoring_count)
        b == WithColumn(a, "unique_types", LAMBDA r : ListOrEmpty(r.unique_types))
        c == WithColumn(b, "owner", LAMBDA r : OwnerOf(r.full_name))
    IN WithColumn(c, "repo", LAMBDA r : RepoOf(r.full_name))

Commits(meta, agg) == AgentSchema(AgentJoin(meta, agg))

\* ref_enriched = ref_df.merge(commits[[...]], on="sha", how="left")
RefEnriched(ref_df, commits) == MergeLeft(ref_df, Project(commits, EnrichCols), "sha")

\* meta = meta[[...]].drop_duplicates()
MetaLoaded(meta_file) == DropDuplicates(Project(meta_file, MetaCols), MetaCols)

BF_Load ==
    /\ Running(BF, "load")
    /\ IF ~disk[RM_JSON].exists \/ ~disk[META_PARQUET].exists
       THEN Ends("SystemExit") /\ UNCHANGED mem
       ELSE IF ~(MetaCols \subseteq disk[META_PARQUET].df.columns)
            THEN Ends("KeyError") /\ UNCHANGED mem   \* meta[[...]] of an absent column
            ELSE /\ Goes("flatten")
                 /\ mem' = [mem EXCEPT !.rm_data = disk[RM_JSON].df.rows,
                                       !.meta = MetaLoaded(disk[META_PARQUET].df)]
    /\ UNCHANGED <<script, disk, lines>>

BF_Flatten ==
    /\ Running(BF, "flatten")
    /\ Goes("aggregate")
    /\ mem' = [mem EXCEPT !.ref_df = DataFrame(AgentRefCols, AgentRefRows(mem.rm_data))]
    /\ UNCHANGED <<script, disk, lines>>

BF_Aggregate ==
    /\ Running(BF, "aggregate")
    /\ IF NRows(mem.ref_df) > 0
       THEN IF AggRaises(mem.ref_df)
            THEN Ends("TypeError") /\ UNCHANGED mem
            ELSE Goes("merge") /\ mem' = [mem EXCEPT !.agg = Agg(mem.ref_df)]
       ELSE Goes("merge") /\ mem' = [mem EXCEPT !.agg = DF(AggCols, <<>>)]
    /\ UNCHANGED <<script, disk, lines>>

BF_Merge ==
    /\ Running(BF, "merge")
    /\ Goes("write")
    /\ mem' = [mem EXCEPT !.commits = Commits(mem.meta, mem.agg)]
    /\ UNCHANGED <<script, disk, lines>>

BF_Write ==
    /\ Running(BF, "write")
    /\ Goes("summary")
    /\ IF NRows(mem.ref_df) > 0
       THEN LET ref_enriched == RefEnriched(mem.ref_df, mem.commits)
            IN /\ mem' = [mem EXCEPT !.ref_enriched = ref_enriched]
               /\ disk' = ToParquet(ToParquet(disk, COMMITS_OUT, mem.commits),
                                    REFACT_OUT, ref_enriched)
       ELSE /\ disk' = ToParquet(disk, COMMITS_OUT, mem.commits)
            /\ UNCHANGED mem
    /\ UNCHANGED <<script, lines>>

\* pct = (ref_commits / total_commits * 100) if total_commits else 0.0
BF_Summary ==
    /\ Running(BF, "summary")
    /\ Ends("ok")
    /\ LET total_commits == NRows(mem.commits)
           ref_commits == CountHasRefactoring(mem.commits)
           pct == IF total_commits # 0 THEN Pct2(ref_commits, total_commits) ELSE 0
       IN PrintLine(RateLine("agent_rate", ref_commits, total_commits, pct, FALSE))
    /\ UNCHANGED <<script, disk, mem>>

----------------------------------------------------------------------------
(* Inputs of the Agent builder *)

AgentOfPr(pr_id) == IF pr_id = 1 THEN "Codex" ELSE "Claude"

MetaRow(sha, pr_id) ==
    [sha |-> sha, pr_id |-> pr_id, number |-> 100 + pr_id,
     full_name |-> ProjectOfSha(sha), agent |-> AgentOfPr(pr_id)]

MetaRowValues == {MetaRow(s, p) : s \in {<<"a">>, <<"B">>, <<"b">>}, p \in {1, 2}}

MetaTables(n) == {DF(MetaCols, rows) : rows \in SeqsUpTo(MetaRowValues, n)}

FewMetaTables ==
    {DF(MetaCols, <<>>), DF(MetaCols, <<MetaRow(<<"a">>, 1)>>),
     DF(MetaCols, <<MetaRow(<<"a">>, 1), MetaRow(<<"a">>, 2), MetaRow(<<"B">>, 1)>>),
     DF(MetaCols, <<MetaRow(<<"a">>, 1), MetaRow(<<"b">>, 1), MetaRow(<<"B">>, 2)>>)}

AgentInputs ==
    (MetaTables(MaxRows) \X FewDocuments) \cup
    (FewMetaTables \X MalformedDocuments) \cup
    (FewMetaTables \X Documents(MaxEntries, MaxRefs))

AgentDisk(meta, doc) ==
    [EmptyDisk EXCEPT ![META_PARQUET] = File(meta), ![RM_JSON] = File(doc)]

----------------------------------------------------------------------------
(* prepare_refactoring_dataset.py *)

PR == "prepare_refactoring_dataset.py"

\* sha = commit.get("sha1", ""), written to commit_sha as it is
PrepareShaCell(c) ==
    CASE c.sha1.k = "absent" -> <<>>
      [] c.sha1.k = "null" -> NAList
      [] OTHER -> c.sha1.v

\* refactorings = commit.get("refactorings", [])
PrepareRefs(c) == IF c.refactorings.k = "list" THEN c.refactorings.v ELSE <<>>

\* for ref in refactorings: a null list is not iterable (TypeError)
PrepareRaises(commits) == \E i \in 1..Len(commits) : commits[i].refactorings.k = "null"

\* rows, one dict per refactoring of every entry
PrepareRows(commits) ==
    FlattenSeq([i \in 1..Len(commits) |->
        LET refs == PrepareRefs(commits[i])
        IN [k \in 1..Len(refs) |->
              [commit_sha |-> PrepareShaCell(commits[i]),
               refactoring_type |-> RefTypeCell(refs[k])]]])

\* df = pd.DataFrame(rows)
extract_refactorings(commits) == DataFrame(RefCols, PrepareRows(commits))

PR_ExtractAgentic ==
    /\ Running(PR, "load")
    /\ IF ~disk[RM_JSON].exists
       THEN Ends("FileNotFoundError") /\ UNCHANGED mem
       ELSE IF PrepareRaises(disk[RM_JSON].df.rows)
            THEN Ends("TypeError") /\ UNCHANGED mem
            ELSE /\ Goes("baseline")
                 /\ mem' = [mem EXCEPT
                      !.df_agentic = extract_refactorings(disk[RM_JSON].df.rows)]
    /\ UNCHANGED <<script, disk, lines>>

\* an empty table taken for the absent document
PR_ExtractBaselineSubstitute ==
    /\ Running(PR, "baseline")
    /\ IF ~disk[RM_JSON_BASELINE].exists
       THEN Goes("save") /\ mem' = [mem EXCEPT !.df_baseline = EmptyDF]
       ELSE IF PrepareRaises(disk[RM_JSON_BASELINE].df.rows)
            THEN Ends("TypeError") /\ UNCHANGED mem
            ELSE /\ Goes("save")
                 /\ mem' = [mem EXCEPT
                      !.df_baseline = extract_refactorings(disk[RM_JSON_BASELINE].df.rows)]
    /\ UNCHANGED <<script, disk, lines>>

PR_ExtractBaseline ==
    /\ Running(PR, "baseline")
    /\ IF ~disk[RM_JSON_BASELINE].exists
       THEN Ends("FileNotFoundError") /\ UNCHANGED mem
       ELSE IF PrepareRaises(disk[RM_JSON_BASELINE].df.rows)
            THEN Ends("TypeError") /\ UNCHANGED mem
            ELSE /\ Goes("save")
                 /\ mem' = [mem EXCEPT
                      !.df_baseline = extract_refactorings(disk[RM_JSON_BASELINE].df.rows)]
    /\ UNCHANGED <<script, disk, lines>>

PR_Save ==
    /\ Running(PR, "save")
    /\ Goes("summary")
    /\ disk' = ToParquet(ToParquet(disk, OUTPUT_AGENTIC, mem.df_agentic),
                         BASELINE_REFACT_OUT, mem.df_baseline)
    /\ UNCHANGED <<script, mem, lines>>

\* df_agentic['commit_sha'].nunique() of a frame without columns: KeyError
PR_Summary ==
    /\ Running(PR, "summary")
    /\ IF "commit_sha" \in mem.df_agentic.columns /\ "commit_sha" \in mem.df_baseline.columns
       THEN Ends("ok")
       ELSE Ends("KeyError")
    /\ UNCHANGED <<script, disk, mem, lines>>

\* the pairs (Agent tool output, Human tool output) a run starts from
PrepareInputs ==
    (Documents(MaxEntries, MaxRefs) \X {ScenarioDocument}) \cup
    ({ScenarioDocument} \X (FewDocuments \cup MalformedDocuments)) \cup
    (MalformedDocuments \X {ScenarioDocument}) \cup
    ({ScenarioDocument} \X
        {DF(JsonCols, <<Entry(JStr(<<"a">>), JNull),
                        Entry(JStr(<<"b">>), JList(<<Ref(JStr("X"))>>))>>)})

PrepareDisk(agentic, baseline) ==
    [EmptyDisk EXCEPT ![RM_JSON] = File(agentic), ![RM_JSON_BASELINE] = File(baseline)]

----------------------------------------------------------------------------
(* The builder runs: one script, started on its input files *)

\* the files a script reads before it computes anything
RequiredInputs(s) ==
    CASE s \in {BB, BH} -> {PR_COMMITS, RM_JSON_BASELINE}
      [] s = NH -> {PR_COMMITS, HUMAN_REFACTORING_COMMITS}
      [] s = BF -> {RM_JSON, META_PARQUET}
      [] s = PR -> {RM_JSON, RM_JSON_BASELINE}

\* a disk holding every input of the script
CompleteDisk(s) ==
    CASE s \in HumanScripts -> HumanDisk(s, ScenarioCandidates, ScenarioDocument)
      [] s = BF -> AgentDisk(DF(MetaCols, <<MetaRow(<<"a">>, 1)>>), ScenarioDocument)
      [] s = PR -> PrepareDisk(ScenarioDocument, ScenarioDocument)

WithoutFiles(d, fs) == [f \in Files |-> IF f \in fs THEN NoFile ELSE d[f]]

\* a run started while some of its input files do not exist
InitMissing ==
    /\ script \in HumanScripts \cup {BF, PR}
    /\ \E fs \in (SUBSET RequiredInputs(script)) \ {{}} :
          disk = WithoutFiles(CompleteDisk(script), fs)

\* a run of a builder started on a population table that lacks a column
InitLackingColumn ==
    \/ /\ script = BF
       /\ \E c \in {"sha", "pr_id", "full_name", "agent"} :
             disk = AgentDisk(Project(DF(MetaCols, <<MetaRow(<<"a">>, 1)>>), MetaCols \ {c}),
                              ScenarioDocument)
    \/ /\ script = BB
       /\ disk = HumanDisk(BB, Project(ScenarioCandidates, PrCols \ {"sha"}), ScenarioDocument)

InitHuman ==
    /\ script \in HumanScripts
    /\ \E in \in HumanInputs : disk = HumanDisk(script, in[1], in[2])

InitAgent ==
    /\ script = BF
    /\ \E in \in AgentInputs : disk = AgentDisk(in[1], in[2])

InitPrepare ==
    /\ script = PR
    /\ \E in \in PrepareInputs : disk = PrepareDisk(in[1], in[2])

Init ==
    /\ pc = "load"
    /\ status = "running"
    /\ lines = <<>>
    /\ mem = Mem0
    /\ (InitHuman \/ InitAgent \/ InitPrepare \/ InitMissing \/ InitLackingColumn)

NextHuman ==
    \/ BB_Load \/ BB_Parse \/ BB_Merge \/ BB_Write \/ BB_Normalize \/ BB_Summary
    \/ BH_Load \/ BH_Parse \/ BH_Merge \/ BH_Summary \/ BH_Write
    \/ NH_Load \/ NH_Normalize \/ NH_Write

NextAgent ==
    \/ BF_Load \/ BF_Flatten \/ BF_Aggregate \/ BF_Merge \/ BF_Write \/ BF_Summary

NextPrepare == PR_ExtractAgentic \/ PR_ExtractBaseline \/ PR_Save \/ PR_Summary

Next == NextHuman \/ NextAgent \/ NextPrepare

Spec == Init /\ [][Next]_vars

----------------------------------------------------------------------------
(* Group-by tables of the analysis scripts *)

AgentRank(a) ==
    CASE a = "Claude" -> 1 [] a = "Codex" -> 2 [] a = "Human" -> 3 [] OTHER -> 4

DatasetRank(d) == IF d = "Agentic" THEN 1 ELSE 2

ProjectRank(p) ==
    CASE p = <<"o1", "r1">> -> 1 [] p = <<"o2", "r2">> -> 2 [] OTHER -> 3

\* the position of a key value in the sorted keys of a groupby; NaN comes last
ColRank(c, v) ==
    CASE c = "agent" -> AgentRank(v)
      [] c = "dataset" -> DatasetRank(v)
      [] c = "full_name" -> ProjectRank(v)
      [] OTHER -> TypeRank(v)

\* key r1 sorts before key r2 (keys are compared column by column)
RECURSIVE KeyLess(_, _, _)
KeyLess(cols, r1, r2) ==
    IF cols = <<>> THEN FALSE
    ELSE LET c == Head(cols)
         IN \/ ColRank(c, r1[c]) < ColRank(c, r2[c])
            \/ ColRank(c, r1[c]) = ColRank(c, r2[c]) /\ KeyLess(Tail(cols), r1, r2)

RECURSIVE SortKeys(_, _)
SortKeys(S, cols) ==
    IF S = {} THEN <<>>
    ELSE LET m == CHOOSE x \in S : \A y \in S : ~KeyLess(cols, y, x)
         IN <<m>> \o SortKeys(S \ {m}, cols)

\* the keys of df.groupby(cols, dropna=dropna), sorted
GroupKeys(df, cols, dropna) ==
    LET kept == {i \in 1..NRows(df) :
                    dropna => \A c \in Range(cols) : df.rows[i][c] # NAOf(c)}
    IN SortKeys({[c \in Range(cols) |-> df.rows[i][c]] : i \in kept}, cols)

\* the rows of one group
GroupRows(df, key) ==
    {i \in 1..NRows(df) : \A c \in DOMAIN key : df.rows[i][c] = key[c]}

\* ("c", "nunique") over the rows I
NUniqueIn(df, I, c) == Cardinality({df.rows[i][c] : i \in I} \ {NAOf(c)})

\* ("c", "sum") over the rows I
SumIn(df, I, c) ==
    SumSeq([k \in 1..NRows(df) |-> IF k \in I THEN df.rows[k][c] ELSE 0])

\* ("has_refactoring", "sum") over the rows I
CountTrueIn(df, I) == Cardinality({i \in I : df.rows[i]["has_refactoring"]})

\* df.rename(columns={old: new})
Rename(df, old, new) ==
    IF old \in df.columns
    THEN LET cols == (df.columns \ {old}) \cup {new}
         IN DF(cols, [i \in 1..NRows(df) |->
                        [x \in cols |-> IF x = new THEN df.rows[i][old]
                                        ELSE df.rows[i][x]]])
    ELSE df

\* df.dropna(subset=[c])
DropNa(df, c) == DF(df.columns, FilterIdx(df.rows, LAMBDA i : df.rows[i][c] # NAOf(c)))

----------------------------------------------------------------------------
(* analyze_data.py *)

AD == "analyze_data.py"

AnalysisInputs ==
    {COMMITS_OUT, REFACT_OUT, HUMAN_REFACTORING_COMMITS, BASELINE_REFACT_OUT,
     HUMAN_PR_COMMITS}

\* the rows that repeat an earlier sha kept, the first ones dropped
DedupeAgenticKeepDuplicated(agentic) ==
    DF(agentic.columns,
       FilterIdx(agentic.rows,
                 LAMBDA i : \E j \in 1..(i - 1) :
                     agentic.rows[j]["sha"] = agentic.rows[i]["sha"]))

\* agentic = agentic.drop_duplicates(subset=["sha"], keep="first")
DedupeAgentic(agentic) == DropDuplicates(agentic, {"sha"})

\* the distinct analyzed commits taken for the candidate commits
HumanPrTotalFromAnalyzed(human_pr, human) == NUnique(human, "sha")

\* human_pr_total = human_pr["sha"].nunique()
HumanPrTotal(human_pr, human) == NUnique(human_pr, "sha")

\* human_analyzed_total = human["sha"].nunique()
HumanAnalyzedTotal(human) == NUnique(human, "sha")

\* human_analyzed_with_ref = int(human["has_refactoring"].sum())
HumanAnalyzedWithRef(human) == CountHasRefactoring(human)

\* df["dataset"] = label, and the fillna of the count and flag columns
Harmonized(df, label) ==
    WithColumn(WithColumn(df, "dataset", LAMBDA r : label),
               "refactoring_count",
               LAMBDA r : IF r.refactoring_count = NaInt THEN 0 ELSE r.refactoring_count)

\* the Human events with the project of their commit and the label "Human"
HumanRefEnriched(human_ref, human) ==
    LET projects == DropDuplicates(Project(human, {"sha", "full_name"}),
                                   {"sha", "full_name"})
    IN WithColumn(MergeLeft(Rename(human_ref, "commit_sha", "sha"), projects, "sha"),
                  "agent", LAMBDA r : "Human")

\* the Agent events, joined with agent and project when they lack them
AgenticRefEnsured(agentic_ref, agentic) ==
    IF "agent" \notin agentic_ref.columns \/ "full_name" \notin agentic_ref.columns
    THEN MergeLeft(agentic_ref,
                   DropDuplicates(Project(agentic, {"sha", "agent", "full_name"}),
                                  {"sha", "agent", "full_name"}),
                   "sha")
    ELSE agentic_ref

\* combined = pd.concat([agentic, human], ignore_index=True)
Combined(agentic, human) == ConcatFrames(agentic, human)

\* the mean of a column as the pair (sum, number of rows)
MeanIn(df, I, c) == <<SumIn(df, I, c), Cardinality(I)>>

\* per_agent: one row per agent label of the combined table
PerAgent(combined) ==
    LET keys == GroupKeys(combined, <<"agent">>, FALSE)
        Row(k) ==
            LET I == GroupRows(combined, k)
            IN [agent |-> k.agent,
                total_commits |-> NUniqueIn(combined, I, "sha"),
                refactoring_commits |-> CountTrueIn(combined, I),
                mean_refactorings |-> MeanIn(combined, I, "refactoring_count"),
                refactoring_rate |->
                    Pct2(CountTrueIn(combined, I), NUniqueIn(combined, I, "sha"))]
    IN DF({"agent", "total_commits", "refactoring_commits", "mean_refactorings",
           "refactoring_rate"},
          [i \in 1..Len(keys) |-> Row(keys[i])])

PerProjectCols ==
    {"agent", "full_name", "total_commits", "refactoring_commits",
     "mean_refactorings", "refactoring_rate", "denominator"}

\* agentic_proj: the Agent commits per (agent, project), observed denominator
AgenticProj(agentic) ==
    LET keys == GroupKeys(agentic, <<"agent", "full_name">>, FALSE)
        Row(k) ==
            LET I == GroupRows(agentic, k)
            IN [agent |-> k.agent, full_name |-> k.full_name,
                total_commits |-> NUniqueIn(agentic, I, "sha"),
                refactoring_commits |-> CountTrueIn(agentic, I),
                mean_refactorings |-> MeanIn(agentic, I, "refactoring_count"),
                refactoring_rate |->
                    Pct2(CountTrueIn(agentic, I), NUniqueIn(agentic, I, "sha")),
                denominator |-> "Observed agentic commits"]
    IN DF(PerProjectCols, [i \in 1..Len(keys) |-> Row(keys[i])])

\* human_proj: per project, the analyzed Human commits over all PR commits
HumanProj(human_pr, human) ==
    LET keys == GroupKeys(human_pr, <<"full_name">>, FALSE)
        Row(k) ==
            LET P == GroupRows(human_pr, k)
                I == GroupRows(human, k)
            IN [agent |-> "Human", full_name |-> k.full_name,
                total_commits |-> NUniqueIn(human_pr, P, "sha"),
                refactoring_commits |-> CountTrueIn(human, I),
                mean_refactorings |->
                    IF I = {} THEN <<0, 1>> ELSE MeanIn(human, I, "refactoring_count"),
                refactoring_rate |->
                    Pct2(CountTrueIn(human, I), NUniqueIn(human_pr, P, "sha")),
                denominator |-> "All PR commits (normalized)"]
    IN DF(PerProjectCols, [i \in 1..Len(keys) |-> Row(keys[i])])

RefEventCols == {"sha", "full_name", "agent", "refactoring_type"}

\* ref_events: the events of both populations that carry a type label
RefEvents(agentic_ref, human_ref) ==
    DropNa(ConcatFrames(
               WithColumn(Project(agentic_ref, RefEventCols), "dataset",
                          LAMBDA r : "Agentic"),
               WithColumn(Project(human_ref, RefEventCols), "dataset",
                          LAMBDA r : "Human")),
           "refactoring_type")

\* the count of every (group, type), the total of the group and the share
ShareTable(counts, by, totalcol) ==
    LET keys == GroupKeys(counts, <<by, "refactoring_type">>, TRUE)
        CountOf(k) == SumIn(counts, GroupRows(counts, k), "count")
        TotalOf(g) ==
            SumSeq([i \in 1..Len(keys) |->
                       IF keys[i][by] = g THEN CountOf(keys[i]) ELSE 0])
        cols == {by, "refactoring_type", "count", totalcol, "share_pct"}
    IN DF(cols,
          [i \in 1..Len(keys) |->
             [x \in cols |->
                CASE x = "count" -> CountOf(keys[i])
                  [] x = totalcol -> TotalOf(keys[i][by])
                  [] x = "share_pct" -> Pct2(CountOf(keys[i]), TotalOf(keys[i][by]))
                  [] OTHER -> keys[i][x]]])

\* ref_events.groupby([by, "refactoring_type"]).size() with the shares added
RefTypesBy(ref_events, by, totalcol) ==
    ShareTable(WithColumn(ref_events, "count", LAMBDA r : 1), by, totalcol)

AD_Load ==
    /\ Running(AD, "load")
    /\ IF \E f \in AnalysisInputs : ~disk[f].exists
       THEN Ends("FileNotFoundError") /\ UNCHANGED mem
       ELSE /\ Goes("dedupe")
            /\ mem' = [mem EXCEPT
                 !.agentic = NormShaColumn(disk[COMMITS_OUT].df, "sha"),
                 !.agentic_ref = NormShaColumn(disk[REFACT_OUT].df, "sha"),
                 !.human = NormShaColumn(disk[HUMAN_REFACTORING_COMMITS].df, "sha"),
                 !.human_ref = NormShaColumn(disk[BASELINE_REFACT_OUT].df, "commit_sha"),
                 !.human_pr = NormShaColumn(disk[HUMAN_PR_COMMITS].df, "sha")]
    /\ UNCHANGED <<script, disk, lines>>

AD_Dedupe ==
    /\ Running(AD, "dedupe")
    /\ Goes("counts")
    /\ LET agentic == DedupeAgentic(mem.agentic)
           removed == NRows(mem.agentic) - NRows(agentic)
       IN /\ mem' = [mem EXCEPT !.agentic = agentic]
          /\ IF removed > 0
             THEN PrintLine(CountLine("deduped_removed", removed))
             ELSE UNCHANGED lines
    /\ UNCHANGED <<script, disk>>

AD_Counts ==
    /\ Running(AD, "counts")
    /\ IF "has_refactoring" \notin mem.human.columns
       THEN Ends("KeyError") /\ UNCHANGED <<mem, lines>>   \* human["has_refactoring"]
       ELSE /\ Goes("harmonize")
            /\ mem' = [mem EXCEPT
                 !.human_pr_total = HumanPrTotal(mem.human_pr, mem.human),
                 !.human_analyzed_total = HumanAnalyzedTotal(mem.human),
                 !.human_analyzed_with_ref = HumanAnalyzedWithRef(mem.human)]
            /\ PrintLine(CountLine("human_pr_commits", HumanPrTotal(mem.human_pr, mem.human)))
    /\ UNCHANGED <<script, disk>>

AD_Harmonize ==
    /\ Running(AD, "harmonize")
    /\ IF \/ ~({"refactoring_count", "has_refactoring"} \subseteq mem.agentic.columns)
          \/ ~({"refactoring_count", "has_refactoring"} \subseteq mem.human.columns)
          \/ "sha" \notin Rename(mem.human_ref, "commit_sha", "sha").columns
       THEN Ends("KeyError") /\ UNCHANGED mem   \* merge on "sha" of a frame without columns
       ELSE /\ Goes("combined")
            /\ mem' = [mem EXCEPT
                 !.agentic = Harmonized(mem.agentic, "Agentic"),
                 !.human = Harmonized(mem.human, "Human"),
                 !.human_ref = HumanRefEnriched(mem.human_ref, mem.human),
                 !.agentic_ref = AgenticRefEnsured(mem.agentic_ref, mem.agentic)]
    /\ UNCHANGED <<script, disk, lines>>

\* log_line(f"... {ref_commits:,} ({ref_commits/total_commits*100:.2f}%)")
AD_Combined ==
    /\ Running(AD, "combined")
    /\ LET combined == Combined(mem.agentic, mem.human)
           total_commits == NUnique(combined, "sha")
           ref_commits == CountHasRefactoring(combined)
       IN /\ mem' = [mem EXCEPT !.combined = combined]
          /\ IF total_commits = 0
             THEN Ends("ZeroDivisionError") /\ UNCHANGED lines
             ELSE /\ Goes("per_agent")
                  /\ PrintLine(RateLine("global_rate", ref_commits, total_commits,
                                        Pct2(ref_commits, total_commits), FALSE))
    /\ UNCHANGED <<script, disk>>

AD_PerAgent ==
    /\ Running(AD, "per_agent")
    /\ Goes("human_norm")
    /\ mem' = [mem EXCEPT !.per_agent = PerAgent(mem.combined)]
    /\ UNCHANGED <<script, disk, lines>>

\* HUMAN NORMALIZATION CHECK: the observed and the normalized rate
AD_HumanNorm ==
    /\ Running(AD, "human_norm")
    /\ Goes("per_project")
    /\ LET with_ref == mem.human_analyzed_with_ref
           analyzed == mem.human_analyzed_total
           pr_total == mem.human_pr_total
           observed == IF analyzed # 0
                       THEN RateLine("observed_rate", with_ref, analyzed,
                                     Pct2(with_ref, analyzed), FALSE)
                       ELSE RateLine("observed_rate", with_ref, analyzed, NaInt, TRUE)
           human_norm_rate == IF pr_total # 0 THEN Pct2(with_ref, pr_total) ELSE 0
       IN lines' = lines \o
             <<observed,
               RateLine("human_norm_rate", with_ref, pr_total, human_norm_rate, FALSE)>>
    /\ UNCHANGED <<script, disk, mem>>

AD_PerProject ==
    /\ Running(AD, "per_project")
    /\ Goes("ref_types")
    /\ mem' = [mem EXCEPT
         !.per_project = ConcatFrames(AgenticProj(mem.agentic),
                                      HumanProj(mem.human_pr, mem.human))]
    /\ UNCHANGED <<script, disk, lines>>

AD_RefTypes ==
    /\ Running(AD, "ref_types")
    /\ Goes("plots")
    /\ LET ref_events == RefEvents(mem.agentic_ref, mem.human_ref)
       IN mem' = [mem EXCEPT
            !.ref_events = ref_events,
            !.ref_types_by_dataset = RefTypesBy(ref_events, "dataset", "dataset_total"),
            !.ref_types_by_agent = RefTypesBy(ref_events, "agent", "agent_total")]
    /\ UNCHANGED <<script, disk, lines>>

\* the plots; the pivot by dataset is sorted by its column "Human"
AD_Plots ==
    /\ Running(AD, "plots")
    /\ IF "Human" \in ColValues(mem.ref_types_by_dataset, "dataset")
       THEN Goes("stats")
       ELSE Ends("KeyError")
    /\ UNCHANGED <<script, disk, mem, lines>>

\* what the try block of the statistics step can meet: both tests run, the
\* import of scipy.stats fails, or one of the two tests raises
StatsOutcomes == {"computed", "ImportError", "kruskal raises", "mannwhitneyu raises"}

\* the groups of the Kruskal-Wallis test: the agents of the combined table
StatsGroups(combined) == ColValues(combined, "agent")

\* the agents compared with the Human group: if len(ag_vals)==0 or
\* len(hum_vals)==0: continue
StatsPairs(combined) ==
    IF "Human" \in StatsGroups(combined) THEN StatsGroups(combined) \ {"Human"} ELSE {}

\* the outcomes the tests that are run allow
PossibleOutcomes(combined) ==
    {"computed", "ImportError"} \cup
    (IF Cardinality(StatsGroups(combined)) > 1 THEN {"kruskal raises"} ELSE {}) \cup
    (IF StatsPairs(combined) # {} THEN {"mannwhitneyu raises"} ELSE {})

\* the lines logged before the outcome shows: the Kruskal-Wallis line (more
\* than one group), the header of the pairwise tests with the number of
\* results logged under it, and the skip
StatsLines(combined, outcome) ==
    (IF outcome \in {"computed", "mannwhitneyu raises"} /\ Cardinality(StatsGroups(combined)) > 1
     THEN <<CountLine("kruskal_wallis", Cardinality(StatsGroups(combined)))>> ELSE <<>>) \o
    (IF outcome \in {"computed", "mannwhitneyu raises"}
     THEN <<CountLine("mann_whitney_pairwise",
                      IF outcome = "computed" THEN Cardinality(StatsPairs(combined)) ELSE 0)>>
     ELSE <<>>) \o
    (IF outcome # "computed" THEN <<CountLine("stats_skipped", 0)>> ELSE <<>>)

\* a failure of the statistics step that is not caught
AD_StatsFatal ==
    /\ Running(AD, "stats")
    /\ \E outcome \in StatsOutcomes \cap PossibleOutcomes(mem.combined) :
          /\ mem' = [mem EXCEPT !.scipy = outcome]
          /\ IF outcome = "computed"
             THEN Goes("save") /\ lines' = lines \o StatsLines(mem.combined, outcome)
             ELSE Ends(outcome) /\ UNCHANGED lines
    /\ UNCHANGED <<script, disk>>

\* try: ... except Exception: log_line("(Stats skipped ...)")
AD_Stats ==
    /\ Running(AD, "stats")
    /\ Goes("save")
    /\ \E outcome \in StatsOutcomes \cap PossibleOutcomes(mem.combined) :
          /\ mem' = [mem EXCEPT !.scipy = outcome]
          /\ lines' = lines \o StatsLines(mem.combined, outcome)
    /\ UNCHANGED <<script, disk>>

\* OUT_TEXT.write_text("\n".join(lines))
AD_Save ==
    /\ Running(AD, "save")
    /\ Ends("ok")
    /\ mem' = [mem EXCEPT !.summary = [written |-> TRUE, text |-> lines]]
    /\ UNCHANGED <<script, disk, lines>>

----------------------------------------------------------------------------
(* refactoring_types_by_agent.py *)

RT == "refactoring_types_by_agent.py"

TypeInputs ==
    {COMMITS_OUT, REFACT_OUT, HUMAN_REFACTORING_COMMITS, BASELINE_REFACT_OUT}

\* .head(15) of the value counts
TopN == 15

\* ref_events["refactoring_type"].value_counts() of one type
TypeCount(ref_events, t) ==
    Cardinality({i \in 1..NRows(ref_events) : ref_events.rows[i]["refactoring_type"] = t})

\* the subsets of S with m elements
RECURSIVE KSubsets(_, _)
KSubsets(S, m) ==
    IF m = 0 THEN {{}}
    ELSE UNION {{E \cup {x} : E \in KSubsets(S \ {x}, m - 1)} : x \in S}

\* the sets of types that value_counts().head(n) can name: the n most
\* frequent types, types of equal count in any order
TopTypeSets(ref_events, n) ==
    LET types == ColValues(ref_events, "refactoring_type")
        Above(c) == {t \in types : TypeCount(ref_events, t) > c}
        AtLevel(c) == {t \in types : TypeCount(ref_events, t) = c}
    IN IF Cardinality(types) <= n THEN {types}
       ELSE LET cut == CHOOSE c \in {TypeCount(ref_events, t) : t \in types} :
                          /\ Cardinality(Above(c)) < n
                          /\ Cardinality(Above(c)) + Cardinality(AtLevel(c)) >= n
                need == n - Cardinality(Above(cut))
                drop == Cardinality(AtLevel(cut)) - need
            IN IF need <= drop
               THEN {Above(cut) \cup R : R \in KSubsets(AtLevel(cut), need)}
               ELSE {Above(cut) \cup (AtLevel(cut) \ E) : E \in KSubsets(AtLevel(cut), drop)}

\* ref_types_top15: the types outside top_types collapsed into "Other",
\* counts and shares aggregated again per agent
RefTypesTop15(ref_types_by_agent, top_types) ==
    ShareTable(WithColumn(Project(ref_types_by_agent,
                                  {"agent", "refactoring_type", "count"}),
                          "refactoring_type",
                          LAMBDA r : IF r.refactoring_type \in top_types
                                     THEN r.refactoring_type ELSE "Other"),
               "agent", "agent_total")

RT_Load ==
    /\ Running(RT, "load")
    /\ IF \E f \in TypeInputs : ~disk[f].exists
       THEN Ends("FileNotFoundError") /\ UNCHANGED mem
       ELSE /\ Goes("harmonize")
            /\ mem' = [mem EXCEPT
                 !.agentic = NormShaColumn(disk[COMMITS_OUT].df, "sha"),
                 !.agentic_ref = NormShaColumn(disk[REFACT_OUT].df, "sha"),
                 !.human = NormShaColumn(disk[HUMAN_REFACTORING_COMMITS].df, "sha"),
                 !.human_ref = NormShaColumn(disk[BASELINE_REFACT_OUT].df, "commit_sha")]
    /\ UNCHANGED <<script, disk, lines>>

RT_Harmonize ==
    /\ Running(RT, "harmonize")
    /\ IF "sha" \notin Rename(mem.human_ref, "commit_sha", "sha").columns
       THEN Ends("KeyError") /\ UNCHANGED mem   \* merge on "sha" of a frame without columns
       ELSE /\ Goes("ref_types")
            /\ mem' = [mem EXCEPT
                 !.human_ref = HumanRefEnriched(mem.human_ref, mem.human),
                 !.agentic_ref = AgenticRefEnsured(mem.agentic_ref, mem.agentic)]
    /\ UNCHANGED <<script, disk, lines>>

RT_RefTypes ==
    /\ Running(RT, "ref_types")
    /\ Goes("plot_all")
    /\ LET ref_events == RefEvents(mem.agentic_ref, mem.human_ref)
       IN mem' = [mem EXCEPT
            !.ref_events = ref_events,
            !.ref_types_by_agent = RefTypesBy(ref_events, "agent", "agent_total")]
    /\ PrintLine(CountLine("ref_events", NRows(RefEvents(mem.agentic_ref, mem.human_ref))))
    /\ UNCHANGED <<script, disk>>

\* the stacked bar chart of all types: a pivot without rows cannot be plotted
RT_PlotAll ==
    /\ Running(RT, "plot_all")
    /\ IF NRows(mem.ref_types_by_agent) = 0
       THEN Ends("TypeError")
       ELSE Goes("top15")
    /\ UNCHANGED <<script, disk, mem, lines>>

RT_Top15 ==
    /\ Running(RT, "top15")
    /\ Ends("ok")
    /\ \E top_types \in TopTypeSets(mem.ref_events, TopN) :
          mem' = [mem EXCEPT
                    !.ref_types_top15 = RefTypesTop15(mem.ref_types_by_agent, top_types)]
    /\ UNCHANGED <<script, disk, lines>>

----------------------------------------------------------------------------
(* dataloader.py and refactoring_per_commit.py *)

RC == "refactoring_per_commit.py"

LoaderInputs == {AGENTIC_DEDUPED, UPDATED_HUMAN, HUMAN_PR_COMMITS}

\* load_datasets(): the two commit tables labelled and concatenated
LoadDatasets(agentic, human) ==
    LET df == ConcatFrames(WithColumn(agentic, "dataset", LAMBDA r : "Agentic"),
                           WithColumn(human, "dataset", LAMBDA r : "Human"))
    IN WithColumn(df, "refactoring_count",
                  LAMBDA r : IF r.refactoring_count = NaInt THEN 0
                             ELSE r.refactoring_count)

\* df[df["dataset"] == label]
OfDataset(df, label) ==
    DF(df.columns, FilterIdx(df.rows, LAMBDA i : df.rows[i]["dataset"] = label))

ProjSummaryCols ==
    {"agent", "full_name", "total_commits", "refactoring_commits",
     "total_refactorings", "refactoring_rate", "refactors_per_all_commits",
     "refactors_per_refactoring_commit", "denominator"}

\* summarize_per_project(sub_df, label); quotients are pairs (numerator, denominator)
summarize_per_project(sub_df, label) ==
    LET keys == GroupKeys(sub_df, <<"agent", "full_name">>, FALSE)
        Row(k) ==
            LET I == GroupRows(sub_df, k)
                total_commits == NUniqueIn(sub_df, I, "sha")
                refactoring_commits == CountTrueIn(sub_df, I)
                total_refactorings == SumIn(sub_df, I, "refactoring_count")
            IN [agent |-> k.agent, full_name |-> k.full_name,
                total_commits |-> total_commits,
                refactoring_commits |-> refactoring_commits,
                total_refactorings |-> total_refactorings,
                refactoring_rate |-> Pct2(refactoring_commits, total_commits),
                refactors_per_all_commits |-> <<total_refactorings, total_commits>>,
                refactors_per_refactoring_commit |->
                    IF refactoring_commits > 0
                    THEN <<total_refactorings, refactoring_commits>> ELSE <<0, 1>>,
                denominator |-> label]
    IN DF(ProjSummaryCols, [i \in 1..Len(keys) |-> Row(keys[i])])

\* table_commits: commits, refactoring commits and refactorings per agent
TableCommits(df) ==
    LET keys == GroupKeys(df, <<"agent">>, FALSE)
        Row(k) ==
            LET I == GroupRows(df, k)
                total_commits == NUniqueIn(df, I, "sha")
                refactoring_commits == CountTrueIn(df, I)
                total_refactorings == SumIn(df, I, "refactoring_count")
            IN [agent |-> k.agent,
                total_commits |-> total_commits,
                refactoring_commits |-> refactoring_commits,
                total_refactorings |-> total_refactorings,
                refactoring_rate |-> Pct2(refactoring_commits, total_commits),
                mean_refactors_per_ref_commit |->
                    IF refactoring_commits > 0
                    THEN <<total_refactorings, refactoring_commits>> ELSE <<0, 1>>]
    IN DF({"agent", "total_commits", "refactoring_commits", "total_refactorings",
           "refactoring_rate", "mean_refactors_per_ref_commit"},
          [i \in 1..Len(keys) |-> Row(keys[i])])

\* df = load_datasets()
RC_LoadDatasets ==
    /\ Running(RC, "load")
    /\ IF \E f \in LoaderInputs : ~disk[f].exists
       THEN Ends("FileNotFoundError") /\ UNCHANGED mem
       ELSE /\ Goes("per_project")
            /\ mem' = [mem EXCEPT
                 !.agentic = disk[AGENTIC_DEDUPED].df,
                 !.human = disk[UPDATED_HUMAN].df,
                 !.human_pr = disk[HUMAN_PR_COMMITS].df,
                 !.combined = LoadDatasets(disk[AGENTIC_DEDUPED].df, disk[UPDATED_HUMAN].df)]
    /\ UNCHANGED <<script, disk, lines>>

RC_PerProject ==
    /\ Running(RC, "per_project")
    /\ Goes("tables")
    /\ mem' = [mem EXCEPT
         !.proj_summary =
             ConcatFrames(
                 summarize_per_project(OfDataset(mem.combined, "Agentic"),
                                       "Observed agentic commits"),
                 summarize_per_project(OfDataset(mem.combined, "Human"),
                                       "Observed human commits"))]
    /\ UNCHANGED <<script, disk, lines>>

RC_Tables ==
    /\ Running(RC, "tables")
    /\ Ends("ok")
    /\ mem' = [mem EXCEPT !.table_commits = TableCommits(mem.combined)]
    /\ UNCHANGED <<script, disk, lines>>

----------------------------------------------------------------------------
(* The files the builders leave for the analysis scripts *)

\* the files after a run of build_final_dataset.py
BuildFinalDisk(d, meta, doc) ==
    LET ref_df == DataFrame(AgentRefCols, AgentRefRows(doc.rows))
        agg == IF NRows(ref_df) > 0 THEN Agg(ref_df) ELSE DF(AggCols, <<>>)
        commits == Commits(MetaLoaded(meta), agg)
    IN IF NRows(ref_df) = 0 THEN ToParquet(d, COMMITS_OUT, commits)
       ELSE IF AggRaises(ref_df) THEN d
       ELSE ToParquet(ToParquet(d, COMMITS_OUT, commits),
                      REFACT_OUT, RefEnriched(ref_df, commits))

\* the files after a run of build_baseline_dataset.py
BuildBaselineDisk(d, pr, doc) ==
    LET pr_df == NormShaColumn(pr, "sha")
        merged == Merged(pr_df, RmDf(doc.rows))
    IN IF RmCommits(doc.rows) = <<>> THEN d
       ELSE ToParquet(ToParquet(ToParquet(d, BASELINE_COMMITS_OUT, merged),
                                BASELINE_REFACT_OUT, RefDf(doc.rows)),
                      NORMALIZED_OUT, Reconcile(pr_df, merged, "unique_types"))

\* the files after build_human_refactoring_commits.py and then
\* normalize_human_refactoring_commits.py
BuildHumanDisk(d, pr, doc) ==
    LET merged == BuildHumanOutput(pr, doc.rows)
    IN IF RmCommits(doc.rows) = <<>> \/ NRows(merged) = 0 THEN d
       ELSE ToParquet(ToParquet(d, HUMAN_REFACTORING_COMMITS, merged),
                      UPDATED_HUMAN, Reconcile(pr, merged, "refactoring_types"))

\* what refactoring_dataset_commits_deduped.parquet may hold: the Agent commit
\* table as built, or that table with one row per sha
AgenticDedupedFiles(d) ==
    IF d[COMMITS_OUT].exists
    THEN {d[COMMITS_OUT].df, DropDuplicates(d[COMMITS_OUT].df, {"sha"})}
    ELSE {}

----------------------------------------------------------------------------
(* Inputs of the analysis runs *)

DigitChars == <<"0", "1", "2", "3", "4", "5", "6", "7", "8", "9">>

\* the sha of the i-th commit of a large population, i in 0..99
ShaOf(i) == <<"c", DigitChars[(i \div 10) + 1], DigitChars[(i % 10) + 1]>>

\* 100 candidate commits ...
ScaleCandidates == DF(PrCols, [i \in 1..100 |-> PrRow(ShaOf(i - 1), 1)])

\* ... of which the tool analyzed 80 and found refactorings in 20
ScaleDocument ==
    DF(JsonCols,
       [i \in 1..80 |->
          Entry(JStr(ShaOf(i - 1)),
                JList(IF i <= 20 THEN <<Ref(JStr("X"))>> ELSE <<>>))])

\* one commit with refactorings of 16 types, two of them of type X
ManyTypesDocument ==
    DF(JsonCols,
       <<Entry(JStr(<<"a">>),
               JList([i \in 1..17 |->
                        Ref(JStr(IF i = 1 THEN "X" ELSE TypeOrder[i + 1]))]))>>)

AgentFixtures ==
    {<<DF(MetaCols, <<MetaRow(<<"a">>, 1)>>),
       DF(JsonCols, <<Entry(JStr(<<"a">>), JList(<<Ref(JStr("X"))>>))>>)>>,
     <<DF(MetaCols, <<MetaRow(<<"a">>, 1), MetaRow(<<"a">>, 2), MetaRow(<<"B">>, 1)>>),
       DF(JsonCols, <<Entry(JStr(<<"B">>), JList(<<>>)),
                      Entry(JStr(<<"a">>), JList(<<Ref(JStr("X")), Ref(JStr("Y"))>>))>>)>>}

HumanFixtures ==
    {<<ScenarioCandidates, ScenarioDocument>>,
     <<DF(PrCols, <<PrRow(<<"a">>, 1), PrRow(<<"a">>, 2), PrRow(<<"b">>, 1)>>),
       DF(JsonCols, <<Entry(JStr(<<"B">>), JList(<<>>)),
                      Entry(JStr(<<"a">>), JList(<<Ref(JStr("X")), Ref(JStr("Y"))>>))>>)>>}

LargeFixtures ==
    {<<ScaleCandidates, ScaleDocument>>, <<ScenarioCandidates, ManyTypesDocument>>}

AnalysisAgentInputs ==
    (MetaTables(MaxRows) \X FewDocuments) \cup
    (FewMetaTables \X Documents(1, MaxRefs))

AnalysisHumanInputs ==
    (PrTables(MaxRows) \X FewDocuments) \cup
    (FewPrTables \X Documents(1, MaxRefs)) \cup
    LargeFixtures

\* java_baseline_pr_commits.parquet: extract_commits_baseline.py writes no
\* empty table
HumanPrOf(pr) == IF NRows(pr) > 0 THEN pr ELSE ScenarioCandidates

\* (metadata, Agent tool output, candidates, Human tool output, PR commits)
AnalysisInputTuples ==
    {<<a[1], a[2], h[1], h[2], HumanPrOf(h[1])>> :
        a \in AnalysisAgentInputs, h \in HumanFixtures} \cup
    {<<a[1], a[2], h[1], h[2], HumanPrOf(h[1])>> :
        a \in AgentFixtures, h \in AnalysisHumanInputs} \cup
    {<<a[1], a[2], h[1], h[2], ScenarioCandidates>> :
        a \in AgentFixtures, h \in HumanFixtures}

AnalysisScripts == {AD, RT, RC}

\* the disk before an analysis run: the inputs and what the builders made of them
BuiltDisk(in) ==
    LET raw == [EmptyDisk EXCEPT ![META_PARQUET] = File(in[1]),
                                 ![RM_JSON] = File(in[2]),
                                 ![PR_COMMITS] = File(in[3]),
                                 ![RM_JSON_BASELINE] = File(in[4]),
                                 ![HUMAN_PR_COMMITS] = File(in[5])]
    IN BuildHumanDisk(BuildBaselineDisk(BuildFinalDisk(raw, in[1], in[2]),
                                        in[3], in[4]),
                      in[3], in[4])

\* the commit tables analyze_data.py reads, and the columns the rates are taken from
CommitTablesRead == {COMMITS_OUT, HUMAN_REFACTORING_COMMITS}
ExpectedColumns == {"has_refactoring", "refactoring_count"}

\* a run of analyze_data.py on a commit table that lacks an expected column
InitAnalysisLackingColumn ==
    /\ script = AD
    /\ \E a \in AgentFixtures, h \in HumanFixtures, f \in CommitTablesRead, c \in ExpectedColumns :
          LET d == BuiltDisk(<<a[1], a[2], h[1], h[2], ScenarioCandidates>>)
          IN /\ \A g \in CommitTablesRead : d[g].exists
             /\ disk = [d EXCEPT ![f] = File(Project(d[f].df, d[f].df.columns \ {c}))]

\* a run of analyze_data.py on a Human commit table that holds no row
InitAnalysisEmptyHuman ==
    /\ script = AD
    /\ \E a \in AgentFixtures, h \in HumanFixtures :
          LET d == BuiltDisk(<<a[1], a[2], h[1], h[2], ScenarioCandidates>>)
          IN /\ \A g \in AnalysisInputs : d[g].exists
             /\ disk = [d EXCEPT ![HUMAN_REFACTORING_COMMITS] =
                          File(DF(d[HUMAN_REFACTORING_COMMITS].df.columns, <<>>))]

InitAnalysisBuilt ==
    /\ script \in AnalysisScripts
    /\ \E in \in AnalysisInputTuples :
          LET d == BuiltDisk(in)
          IN IF script = RC /\ d[COMMITS_OUT].exists
             THEN \E f \in AgenticDedupedFiles(d) : disk = ToParquet(d, AGENTIC_DEDUPED, f)
             ELSE disk = d

InitAnalysis ==
    /\ pc = "load"
    /\ status = "running"
    /\ lines = <<>>
    /\ mem = Mem0
    /\ (InitAnalysisBuilt \/ InitAnalysisLackingColumn \/ InitAnalysisEmptyHuman)

NextAD ==
    \/ AD_Load \/ AD_Dedupe \/ AD_Counts \/ AD_Harmonize \/ AD_Combined
    \/ AD_PerAgent \/ AD_HumanNorm \/ AD_PerProject \/ AD_RefTypes
    \/ AD_Plots \/ AD_Stats \/ AD_Save

NextRT == RT_Load \/ RT_Harmonize \/ RT_RefTypes \/ RT_PlotAll \/ RT_Top15

NextRC == RC_LoadDatasets \/ RC_PerProject \/ RC_Tables

NextAnalysis == NextAD \/ NextRT \/ NextRC

SpecAnalysis == InitAnalysis /\ [][NextAnalysis]_vars

----------------------------------------------------------------------------
(* Vocabulary of the properties *)

\* the identity of a commit: its sha lower-cased and stripped
NormId(sha) == Lower(Strip(sha))

\* the rows of a commit table that carry the identifier id
RowsWithId(df, id) == {i \in 1..NRows(df) : NormId(df.rows[i]["sha"]) = id}

\* the candidate identifiers of the Human population (baseline PR commits)
CandidateIds == {NormId(x) : x \in ColValues(disk[PR_COMMITS].df, "sha")}

\* the normalized commit tables this run has written
NormalizedTables ==
    {disk[f].df : f \in {g \in {NORMALIZED_OUT, UPDATED_HUMAN} : disk[g].exists}}

\* C1: after the Completeness Reconciler ran, every candidate identifier has
\* exactly one row in the normalized table, also when the candidate table
\* lists it under several PRs or in different letter case
C1_ExactlyOneRowPerCandidate ==
    \A t \in NormalizedTables : \A id \in CandidateIds :
        Cardinality(RowsWithId(t, id)) = 1

\* the run started on the inputs of the end-to-end scenario
ScenarioRun ==
    /\ script = BB
    /\ disk[PR_COMMITS].df = ScenarioCandidates
    /\ disk[RM_JSON_BASELINE].df = ScenarioDocument

CountsOf(df, id) == {df.rows[i]["refactoring_count"] : i \in RowsWithId(df, id)}

\* C2: on tool output {a: 2 refactorings of type X, b: none} and candidates
\* {a, b, c}, the normalized commit table has exactly 3 rows, with
\* refactoring_count 2 for a, 0 for b and 0 for the synthesized c, and the
\* event table has exactly 2 rows, both referencing a
C2_EndToEndScenario ==
    (ScenarioRun /\ pc = "exit") =>
        /\ status = "ok"
        /\ disk[NORMALIZED_OUT].exists /\ disk[BASELINE_REFACT_OUT].exists
        /\ LET t == disk[NORMALIZED_OUT].df
               ev == disk[BASELINE_REFACT_OUT].df
           IN /\ NRows(t) = 3
              /\ \A id \in {<<"a">>, <<"b">>, <<"c">>} : Cardinality(RowsWithId(t, id)) = 1
              /\ CountsOf(t, <<"a">>) = {2}
              /\ CountsOf(t, <<"b">>) = {0}
              /\ CountsOf(t, <<"c">>) = {0}
              /\ \A i \in RowsWithId(t, <<"c">>) : t.rows[i]["agent"] = NA
              /\ NRows(ev) = 2
              /\ \A i \in 1..NRows(ev) : ev.rows[i]["commit_sha"] = <<"a">>

C2_Witness == ScenarioRun /\ pc = "exit" /\ status = "ok"

----------------------------------------------------------------------------
(* Event tables and the commit tables written with them *)

\* (event table, commit table, event column naming the commit) of a builder
EventAndCommitTables ==
    {<<BASELINE_REFACT_OUT, BASELINE_COMMITS_OUT, "commit_sha">>,
     <<REFACT_OUT, COMMITS_OUT, "sha">>}

\* C4: every row of the event table references a commit that has a row in
\* the commit table written by the same run, that row has has_refactoring =
\* true, and the number of event rows of the commit equals the row's
\* refactoring_count
C4_EventReferentialIntegrity ==
    \A p \in EventAndCommitTables :
        (disk[p[1]].exists /\ disk[p[2]].exists) =>
            LET ev == disk[p[1]].df
                cm == disk[p[2]].df
            IN \A i \in 1..NRows(ev) :
                  LET id == ev.rows[i][p[3]]
                      hits == {j \in 1..NRows(cm) : cm.rows[j]["sha"] = id}
                      events == {k \in 1..NRows(ev) : ev.rows[k][p[3]] = id}
                  IN /\ hits # {}
                     /\ \A j \in hits :
                           /\ cm.rows[j]["has_refactoring"]
                           /\ cm.rows[j]["refactoring_count"] = Cardinality(events)

----------------------------------------------------------------------------
(* The Metadata Joiner *)

\* the commit identifiers the Human tool output lists
HumanToolIds ==
    {NormId(e.sha1.v) :
        e \in {x \in Range(disk[RM_JSON_BASELINE].df.rows) : x.sha1.k = "str"}}

\* the analyzed Human commit tables on disk
AnalyzedHumanTables ==
    {disk[f].df :
        f \in {g \in {BASELINE_COMMITS_OUT, HUMAN_REFACTORING_COMMITS} : disk[g].exists}}

\* the commit identifiers the Agent tool output lists
AgentToolIds ==
    {NormId(e.sha1.v) : e \in {x \in Range(disk[RM_JSON].df.rows) : x.sha1.k = "str"}}

\* the shas, as written, of the Agent tool-output entries that carry events
AgentEventShas ==
    {e.sha1.v : e \in {x \in Range(disk[RM_JSON].df.rows) :
                          x.sha1.k = "str" /\ EntryRefs(x) # <<>>}}

\* the Human builders keep a commit only if the candidate table and the tool
\* output both list it
HumanJoinIsInner ==
    disk[PR_COMMITS].exists =>
        \A t \in AnalyzedHumanTables : \A i \in 1..NRows(t) :
            NormId(t.rows[i]["sha"]) \in CandidateIds \cap HumanToolIds

\* C5 as stated: in both builders a commit row is in the analyzed table only
\* if the metadata table and the tool output both list its identifier
C5_InnerJoinInBothBuilders ==
    /\ HumanJoinIsInner
    /\ disk[COMMITS_OUT].exists =>
          \A i \in 1..NRows(disk[COMMITS_OUT].df) :
              NormId(disk[COMMITS_OUT].df.rows[i]["sha"]) \in AgentToolIds

\* C5 (amended): the Human builders join inner on the commit identifier; the
\* Agent builder joins left from the metadata on the sha as written, so every
\* metadata row has a row in the Agent commit table and a metadata commit
\* whose sha carries no refactoring in the tool output is a zero row
C5_MetadataJoin ==
    /\ HumanJoinIsInner
    /\ disk[COMMITS_OUT].exists =>
          LET cm == disk[COMMITS_OUT].df
              meta == disk[META_PARQUET].df
          IN /\ \A j \in 1..NRows(meta) : \E i \in 1..NRows(cm) :
                   \A c \in MetaCols : cm.rows[i][c] = meta.rows[j][c]
             /\ \A i \in 1..NRows(cm) :
                   cm.rows[i]["sha"] \notin AgentEventShas =>
                       /\ cm.rows[i]["refactoring_count"] = 0
                       /\ ~cm.rows[i]["has_refactoring"]
                       /\ cm.rows[i]["unique_types"] = <<>>

\* a finished Human build whose analyzed table has rows and leaves out a
\* candidate that the tool output does not list
C5_Witness ==
    /\ script = BB /\ pc = "exit" /\ status = "ok"
    /\ NRows(disk[BASELINE_COMMITS_OUT].df) > 0
    /\ \E id \in CandidateIds \ HumanToolIds :
          RowsWithId(disk[BASELINE_COMMITS_OUT].df, id) = {}

----------------------------------------------------------------------------
(* Placeholder rows *)

\* C6: every placeholder row of a normalized table carries the candidate
\* row's sha, full_name, pr_id and number, and the defaults
\* refactoring_count = 0, has_refactoring = false and unique_types = [],
\* in both reconcilers
C6_PlaceholderDefaults ==
    \A f \in {NORMALIZED_OUT, UPDATED_HUMAN} :
        disk[f].exists =>
            LET t == disk[f].df
                pr == disk[PR_COMMITS].df
            IN \A i \in (NRows(mem.human_df) + 1)..NRows(t) :
                  /\ \E j \in 1..NRows(pr) :
                        /\ NormId(t.rows[i]["sha"]) = NormId(pr.rows[j]["sha"])
                        /\ \A c \in {"full_name", "pr_id", "number"} :
                              t.rows[i][c] = pr.rows[j][c]
                  /\ t.rows[i]["refactoring_count"] = 0
                  /\ ~t.rows[i]["has_refactoring"]
                  /\ "unique_types" \in t.columns
                  /\ t.rows[i]["unique_types"] = <<>>

----------------------------------------------------------------------------
(* Rates over empty tables *)

RateLabels ==
    {"human_rate", "agent_rate", "normalized_rate", "global_rate",
     "observed_rate", "human_norm_rate"}

\* C8: a rate over a table without commits is reported as an explicit
\* insufficient-data marker: the run raises no exception and prints no 0%
C8_ZeroDivisionGuard ==
    /\ status # "ZeroDivisionError"
    /\ \A i \in 1..Len(lines) :
          (lines[i].what \in RateLabels /\ lines[i].den = 0) => lines[i].na

----------------------------------------------------------------------------
(* The aggregation of analyze_data.py *)

\* analyze_data.py has built the combined commit table and the event tables
Aggregating ==
    /\ script = AD
    /\ pc \in {"per_agent", "human_norm", "per_project", "ref_types", "plots", "save"}

\* the groups of the aggregation: every agent label of the combined table, and Human
AggregationGroups == (ColValues(mem.combined, "agent") \ {NA}) \cup {"Human"}

\* the sum of refactoring_count over the commit rows of a group
CommitSumOf(g) ==
    SumIn(mem.combined,
          {i \in 1..NRows(mem.combined) : mem.combined.rows[i]["agent"] = g},
          "refactoring_count")

\* the number of event rows attributed to a group
EventCountOf(g) ==
    Cardinality({i \in 1..NRows(mem.agentic_ref) : mem.agentic_ref.rows[i]["agent"] = g})
    + Cardinality({i \in 1..NRows(mem.human_ref) : mem.human_ref.rows[i]["agent"] = g})

\* C3: for every group of the aggregation, the sum of refactoring_count over
\* the commit rows of the group equals the number of event rows of the group
C3_Conservation ==
    Aggregating => \A g \in AggregationGroups : CommitSumOf(g) = EventCountOf(g)

----------------------------------------------------------------------------
(* The two Human rates *)

LinesOf(what) == {i \in 1..Len(lines) : lines[i].what = what}

\* the distinct analyzed Human commits, the distinct candidate PR commits and
\* the analyzed commit rows with has_refactoring, read from the files
AnalyzedIds == {NormId(x) : x \in ColValues(disk[HUMAN_REFACTORING_COMMITS].df, "sha")}

CandidatePrIds == {NormId(x) : x \in ColValues(disk[HUMAN_PR_COMMITS].df, "sha")}

AnalyzedWithRef == CountHasRefactoring(disk[HUMAN_REFACTORING_COMMITS].df)

\* analyze_data.py has printed its HUMAN NORMALIZATION CHECK
HumanRatesPrinted ==
    /\ script = AD
    /\ pc \in {"per_project", "ref_types", "plots", "save"}

\* C7: the analysis reports the Observed rate, over the distinct analyzed
\* commits, and the Normalized rate, over the distinct candidate PR commits,
\* each on a line of its own; with 100 candidates, 80 analyzed and 20
\* transformed they are 25.00% and 20.00%; they differ whenever the analyzed
\* set is a strict subset of the candidate set and a commit is transformed
C7_DenominatorDistinction ==
    HumanRatesPrinted =>
        /\ Cardinality(LinesOf("observed_rate")) = 1
        /\ Cardinality(LinesOf("human_norm_rate")) = 1
        /\ \A i \in LinesOf("observed_rate") : \A j \in LinesOf("human_norm_rate") :
              LET observed == lines[i]
                  normalized == lines[j]
              IN /\ observed.num = AnalyzedWithRef
                 /\ observed.den = Cardinality(AnalyzedIds)
                 /\ observed.na = (observed.den = 0)   \* no analyzed commit: "n/a"
                 /\ ~observed.na =>
                       /\ observed.pct * 2 * observed.den
                             <= observed.num * 20000 + observed.den
                       /\ observed.num * 20000 - observed.den
                             < observed.pct * 2 * observed.den
                 /\ normalized.num = AnalyzedWithRef
                 /\ normalized.den = Cardinality(CandidatePrIds)
                 /\ normalized.pct * 2 * normalized.den
                       <= normalized.num * 20000 + normalized.den
                 /\ normalized.num * 20000 - normalized.den
                       < normalized.pct * 2 * normalized.den
                 /\ (Cardinality(CandidatePrIds) = 100 /\ Cardinality(AnalyzedIds) = 80
                        /\ AnalyzedWithRef = 20) =>
                       (observed.pct = 2500 /\ normalized.pct = 2000)
                 /\ (AnalyzedIds \subseteq CandidatePrIds /\ AnalyzedIds # CandidatePrIds
                        /\ AnalyzedWithRef >= 1) =>
                       observed.num * normalized.den # normalized.num * observed.den

\* the analysis of 100 candidate commits, 80 analyzed, 20 transformed
C7_Witness ==
    /\ HumanRatesPrinted
    /\ Cardinality(CandidatePrIds) = 100
    /\ Cardinality(AnalyzedIds) = 80
    /\ AnalyzedWithRef = 20

----------------------------------------------------------------------------
(* Shares of the refactoring types *)

\* the rows of a share table that belong to the group g of the column by
ShareRowsOf(t, by, g) == {i \in 1..NRows(t) : t.rows[i][by] = g}

\* the group has share rows, and their counts sum to the total every row of
\* the group divides by, so that the shares of the group sum to 100
SharesSumTo100(t, by, totalcol, g) ==
    /\ ShareRowsOf(t, by, g) # {}
    /\ \A i \in ShareRowsOf(t, by, g) :
          /\ t.rows[i][totalcol] > 0
          /\ t.rows[i][totalcol] = SumIn(t, ShareRowsOf(t, by, g), "count")

\* the values of the column by in the commit rows with has_refactoring
TransformedGroups(commits, by) ==
    {commits.rows[i][by] :
        i \in {j \in 1..NRows(commits) : commits.rows[j]["has_refactoring"]}} \ {NA}

\* C9: every (dataset, agent) group that has a commit with has_refactoring =
\* true has share rows whose counts sum to the share denominator of the
\* group, in the tables by dataset and by agent and in the table that
\* collapses all but the 15 most frequent types into "Other"
C9_ShareNormalization ==
    /\ (script = AD /\ pc \in {"plots", "save"}) =>
          /\ \A g \in TransformedGroups(mem.combined, "dataset") :
                SharesSumTo100(mem.ref_types_by_dataset, "dataset", "dataset_total", g)
          /\ \A g \in TransformedGroups(mem.combined, "agent") :
                SharesSumTo100(mem.ref_types_by_agent, "agent", "agent_total", g)
    /\ (script = RT /\ pc = "exit" /\ status = "ok") =>
          \A g \in TransformedGroups(mem.agentic, "agent")
                      \cup TransformedGroups(mem.human, "agent") :
              /\ SharesSumTo100(mem.ref_types_by_agent, "agent", "agent_total", g)
              /\ SharesSumTo100(mem.ref_types_top15, "agent", "agent_total", g)

----------------------------------------------------------------------------
(* Deduplication of the Agent commits *)

\* the rows of the combined commit table that belong to the Agent population
AgenticRows ==
    {i \in 1..NRows(mem.combined) : mem.combined.rows[i]["dataset"] = "Agentic"}

\* C10: in the combined commit table that analyze_data.py and
\* dataloader.load_datasets build, no two rows of the Agent population share
\* a sha
C10_AgentDedupBeforeConcat ==
    \A i \in AgenticRows : \A j \in AgenticRows :
        mem.combined.rows[i]["sha"] = mem.combined.rows[j]["sha"] => i = j

----------------------------------------------------------------------------
(* Repeated entries of one commit in the tool output *)

\* (tool output, commit table, event table, event column naming the commit,
\*  whether the builder lower-cases and strips the identifier) of a builder
ToolAndTables ==
    {<<RM_JSON_BASELINE, BASELINE_COMMITS_OUT, BASELINE_REFACT_OUT, "commit_sha", TRUE>>,
     <<RM_JSON, COMMITS_OUT, REFACT_OUT, "sha", FALSE>>}

\* the identifier a builder reads from a tool-output entry that carries one
EntryId(e, normalizes) == IF normalizes THEN NormId(e.sha1.v) ELSE e.sha1.v

\* the positions of the tool-output entries that carry the identifier id
EntriesOf(doc, id, normalizes) ==
    {i \in 1..NRows(doc) :
        doc.rows[i].sha1.k = "str" /\ EntryId(doc.rows[i], normalizes) = id}

\* the number of refactorings of the first entry that carries id
FirstEntryCount(doc, id, normalizes) ==
    LET first == CHOOSE i \in EntriesOf(doc, id, normalizes) :
                     \A j \in EntriesOf(doc, id, normalizes) : i <= j
    IN Len(EntryRefs(doc.rows[first]))

\* a builder has run to its normal end
BuilderDone == script \in {BB, BF} /\ pc = "exit" /\ status = "ok"

\* C11: when the tool output holds several entries of one commit identifier,
\* every commit row of that commit has the refactoring_count of the first
\* entry, not the sum over the entries, and the event table holds the events
\* of that entry only
C11_NoDoubleCounting ==
    BuilderDone =>
        \A p \in ToolAndTables :
            (disk[p[1]].exists /\ disk[p[2]].exists) =>
                LET doc == disk[p[1]].df
                    cm == disk[p[2]].df
                    ev == IF disk[p[3]].exists THEN disk[p[3]].df ELSE EmptyDF
                IN \A i \in 1..NRows(doc) :
                      (/\ doc.rows[i].sha1.k = "str"
                       /\ Cardinality(EntriesOf(doc, EntryId(doc.rows[i], p[5]), p[5])) >= 2) =>
                          LET id == EntryId(doc.rows[i], p[5])
                              n == FirstEntryCount(doc, id, p[5])
                          IN /\ \A j \in 1..NRows(cm) :
                                   cm.rows[j]["sha"] = id =>
                                       cm.rows[j]["refactoring_count"] = n
                             /\ Cardinality({k \in 1..NRows(ev) : ev.rows[k][p[4]] = id}) = n

----------------------------------------------------------------------------
(* The Deduplicator applied to its own output *)

\* the tables on disk that carry the key columns of both Deduplicators
KeyedTables ==
    {disk[f].df : f \in {g \in Files : /\ disk[g].exists
                                       /\ {"sha", "pr_id", "agent"} \subseteq disk[g].df.columns}}

\* analyze_data.py has deduplicated the Agent commit table
AgentDeduped == script = AD /\ pc \notin {"load", "dedupe"} /\ status # "FileNotFoundError"

\* C12: the Deduplicator (by sha for Agent, by (sha, pr_id, agent) for
\* Human) applied to its own output removes no row, for any input table
C12_DedupIdempotence ==
    /\ \A t \in KeyedTables :
          /\ DedupeAgentic(DedupeAgentic(t)) = DedupeAgentic(t)
          /\ HumanDedupe(HumanDedupe(t)) = HumanDedupe(t)
    /\ AgentDeduped => NRows(DedupeAgentic(mem.agentic)) = NRows(mem.agentic)
    /\ disk[HUMAN_REFACTORING_COMMITS].exists =>
          NRows(HumanDedupe(disk[HUMAN_REFACTORING_COMMITS].df))
              = NRows(disk[HUMAN_REFACTORING_COMMITS].df)

\* analyze_data.py has removed a row of the Agent commit table, and the Human
\* commit table holds a sha under two PRs
C12_Witness ==
    /\ AgentDeduped
    /\ NRows(mem.agentic) > 0
    /\ NRows(mem.agentic) < NRows(disk[COMMITS_OUT].df)
    /\ NUnique(disk[HUMAN_REFACTORING_COMMITS].df, "sha")
          < NRows(disk[HUMAN_REFACTORING_COMMITS].df)

----------------------------------------------------------------------------
(* Commit entries without refactorings *)

\* the identifiers of the tool output all of whose entries have an empty,
\* null or missing refactorings list
ZeroResultIds(doc, normalizes) ==
    {id \in {EntryId(doc.rows[i], normalizes) :
                i \in {j \in 1..NRows(doc) : /\ doc.rows[j].sha1.k = "str"
                                             /\ Strip(doc.rows[j].sha1.v) # <<>>}} :
        \A i \in EntriesOf(doc, id, normalizes) : EntryRefs(doc.rows[i]) = <<>>}

\* the table t holds exactly one record of id, with no refactoring
OneZeroRecord(t, id) ==
    /\ Cardinality({i \in 1..NRows(t) : t.rows[i]["sha"] = id}) = 1
    /\ \A i \in 1..NRows(t) :
          t.rows[i]["sha"] = id =>
              t.rows[i]["refactoring_count"] = 0 /\ ~t.rows[i]["has_refactoring"]

\* a Human builder has parsed the tool output into rm_df
HumanParsed ==
    script \in {BB, BH} /\ pc \notin {"load", "parse"} /\ status \in {"running", "ok"}

\* the Agent builder has aggregated the tool output into agg
AgentAggregated ==
    /\ script = BF
    /\ pc \notin {"load", "flatten", "aggregate"}
    /\ status \in {"running", "ok"}

\* C13 as stated: a tool-output commit entry that has an identifier and an
\* empty, null or missing refactorings list yields exactly one commit record,
\* with refactoring_count = 0 and has_refactoring = false, in the Human
\* builders (rm_df) and in the Agent builder (agg)
C13_ZeroResultCommits ==
    /\ HumanParsed =>
          \A id \in ZeroResultIds(disk[RM_JSON_BASELINE].df, TRUE) :
              OneZeroRecord(mem.rm_df, id)
    /\ AgentAggregated =>
          \A id \in ZeroResultIds(disk[RM_JSON].df, FALSE) :
              OneZeroRecord(mem.agg, id)

\* the rows of the table t that carry the sha id
RowsOfSha(t, id) == {i \in 1..NRows(t) : t.rows[i]["sha"] = id}

\* C13 (amended): in the Human builders an identifier all of whose entries
\* are without refactorings has exactly one record in rm_df, with
\* refactoring_count = 0 and has_refactoring = false; the Agent builder makes
\* no record of it in agg, and its commit table holds a zero row for each
\* metadata row of that sha, none if the metadata does not list it
C13_ZeroResultRecords ==
    /\ HumanParsed =>
          \A id \in ZeroResultIds(disk[RM_JSON_BASELINE].df, TRUE) :
              OneZeroRecord(mem.rm_df, id)
    /\ AgentAggregated =>
          \A id \in ZeroResultIds(disk[RM_JSON].df, FALSE) :
              /\ RowsOfSha(mem.agg, id) = {}
              /\ disk[COMMITS_OUT].exists =>
                    LET cm == disk[COMMITS_OUT].df
                    IN /\ Cardinality(RowsOfSha(cm, id))
                             = Cardinality(RowsOfSha(MetaLoaded(disk[META_PARQUET].df), id))
                       /\ \A i \in RowsOfSha(cm, id) :
                             /\ cm.rows[i]["refactoring_count"] = 0
                             /\ ~cm.rows[i]["has_refactoring"]

\* the Agent builder has written a zero row for a commit that the tool
\* output lists without refactorings, beside a commit with refactorings
C13_Witness ==
    /\ script = BF /\ pc = "exit" /\ status = "ok"
    /\ \E id \in ZeroResultIds(disk[RM_JSON].df, FALSE) :
          RowsOfSha(disk[COMMITS_OUT].df, id) # {}
    /\ \E i \in 1..NRows(disk[COMMITS_OUT].df) :
          disk[COMMITS_OUT].df.rows[i]["has_refactoring"]

----------------------------------------------------------------------------
(* C14: tool-output entries that lack an identifier *)

\* the entry has no identifier: sha1 missing, null, empty or blank
LacksIdentifier(e) == e.sha1.k \in {"absent", "null"} \/ Strip(e.sha1.v) = <<>>

\* the identifiers carried by the entries that have one
IdentifiedIds(doc) ==
    {NormId(doc.rows[i].sha1.v) : i \in {j \in 1..Len(doc.rows) : ~LacksIdentifier(doc.rows[j])}}

\* the event tables written from a tool-output document, with their sha column
EventTablesOfDocument ==
    {<<RM_JSON_BASELINE, BASELINE_REFACT_OUT, "commit_sha">>,
     <<RM_JSON, REFACT_OUT, "sha">>,
     <<RM_JSON, OUTPUT_AGENTIC, "commit_sha">>}

\* a script that parses tool output has run to its end
ToolOutputParsed == script \in {BB, BH, BF, PR} /\ pc = "exit"

\* C14: an entry of the tool output that lacks an identifier is discarded: every
\* commit record parsed and every event record written by a script that parses
\* tool output carries the identifier of an entry that has one
C14_EntriesWithoutIdentifierDiscarded ==
    ToolOutputParsed =>
        /\ \A i \in 1..Len(mem.rm_df.rows) :
              NormId(mem.rm_df.rows[i]["sha"]) \in IdentifiedIds(disk[RM_JSON_BASELINE].df)
        /\ \A t \in EventTablesOfDocument :
              (disk[t[1]].exists /\ disk[t[2]].exists) =>
                  \A i \in 1..Len(disk[t[2]].df.rows) :
                      NormId(disk[t[2]].df.rows[i][t[3]]) \in IdentifiedIds(disk[t[1]].df)

----------------------------------------------------------------------------
(* C15: the accounting of skipped entries *)

\* the number of entries of the tool output the parse loop of the script skipped
SkippedEntries ==
    IF script = BF
    THEN Len(disk[RM_JSON].df.rows) - Len(AgentKept(disk[RM_JSON].df.rows))
    ELSE Len(disk[RM_JSON_BASELINE].df.rows) - Len(KeptEntries(disk[RM_JSON_BASELINE].df.rows))

\* a builder has parsed its tool output, skipped entries, and has ended
EndedWithSkips ==
    /\ script \in {BB, BH, BF}
    /\ pc = "exit"
    /\ status # "SystemExit"
    /\ SkippedEntries > 0

\* C15: when a builder skipped entries that lack an identifier, its summary log
\* reports the number of entries skipped and the run does not end in a failure
C15_SkipCounterReported ==
    EndedWithSkips =>
        /\ status = "ok"
        /\ \E i \in 1..Len(lines) :
              lines[i].what = "skipped" /\ lines[i].num = SkippedEntries

----------------------------------------------------------------------------
(* C16: a required input file does not exist *)

\* some input file of the script is absent
InputMissing == \E f \in RequiredInputs(script) : ~disk[f].exists

FailureStatuses == {"SystemExit", "FileNotFoundError"}

\* the files the four scripts write
WrittenFiles ==
    {BASELINE_COMMITS_OUT, BASELINE_REFACT_OUT, NORMALIZED_OUT, UPDATED_HUMAN,
     COMMITS_OUT, REFACT_OUT, OUTPUT_AGENTIC}

\* C16: when an input file of build_final_dataset.py, build_baseline_dataset.py,
\* normalize_human_refactoring_commits.py or prepare_refactoring_dataset.py does
\* not exist, the run ends in a failure, no file is written, and the run never
\* computes with a table standing in for the absent input
C16_InputMissingFails ==
    (script \in {BF, BB, NH, PR} /\ InputMissing) =>
        /\ pc \in {"load", "baseline", "exit"}
        /\ pc = "exit" => status \in FailureStatuses
        /\ \A f \in WrittenFiles : ~disk[f].exists
        /\ mem.rm_df = EmptyDF /\ mem.ref_df = EmptyDF /\ mem.merged = EmptyDF
        /\ mem.updated_df = EmptyDF /\ mem.commits = EmptyDF /\ mem.df_baseline = EmptyDF

\* prepare_refactoring_dataset.py has read the Agent document, found the Human
\* document absent, and has ended
C16_Witness ==
    /\ script = PR
    /\ disk[RM_JSON].exists /\ ~disk[RM_JSON_BASELINE].exists
    /\ mem.df_agentic # EmptyDF
    /\ pc = "exit" /\ status = "FileNotFoundError"

----------------------------------------------------------------------------
(* C17: an empty population table, or one that lacks a column *)

\* the population table of the builder and the commit tables it writes
PopulationAndCommitTables ==
    {<<BF, META_PARQUET, {COMMITS_OUT}>>,
     <<BB, PR_COMMITS, {BASELINE_COMMITS_OUT, NORMALIZED_OUT}>>}

\* the columns of the population table the join needs
JoinColumns(s) == IF s = BF THEN {"sha", "pr_id", "full_name", "agent"}
                           ELSE {"sha", "pr_id", "full_name"}

\* the population table is there, and is empty or lacks a column
PopulationUnusable(s, f) ==
    /\ \A g \in RequiredInputs(s) : disk[g].exists
    /\ \/ NRows(disk[f].df) = 0
       \/ ~(JoinColumns(s) \subseteq disk[f].df.columns)

\* C17: a builder whose population table is empty or lacks a required column
\* ends in a failure and writes no commit table
C17_MetadataFailFast ==
    \A t \in PopulationAndCommitTables :
        (script = t[1] /\ PopulationUnusable(t[1], t[2])) =>
            /\ pc = "exit" => status \notin {"ok"}
            /\ \A f \in t[3] : ~disk[f].exists

----------------------------------------------------------------------------
(* C18: a commit table that lacks an expected column *)

\* the commit tables read and the frames analyze_data.py holds them in
CommitFrames == {<<COMMITS_OUT, "agentic">>, <<HUMAN_REFACTORING_COMMITS, "human">>}

\* the cell holds the documented default of the column (false, 0)
CellIsDefault(row, c) == IF c = "has_refactoring" THEN row[c] = FALSE ELSE row[c] = 0

----------------------------------------------------------------------------
(* C19: the statistics step cannot run *)

\* the statistics step met a failing import or a raising test
StatsUnavailable == script = AD /\ mem.scipy \notin {"untried", "computed"}

\* the aggregate tables are the ones their steps wrote
AggregateTablesIntact ==
    /\ mem.per_agent = PerAgent(mem.combined)
    /\ mem.per_project = ConcatFrames(AgenticProj(mem.agentic), HumanProj(mem.human_pr, mem.human))
    /\ mem.ref_types_by_dataset = RefTypesBy(mem.ref_events, "dataset", "dataset_total")
    /\ mem.ref_types_by_agent = RefTypesBy(mem.ref_events, "agent", "agent_total")
    /\ mem.per_agent.columns # {} /\ mem.per_project.columns # {}

\* C19: when the statistics dependency cannot be imported or a test raises,
\* analyze_data.py logs the skip, leaves the aggregate tables written before the
\* step as they are, writes the summary text and ends normally
C19_StatisticsSkipped ==
    StatsUnavailable =>
        /\ \E i \in 1..Len(lines) : lines[i].what = "stats_skipped"
        /\ AggregateTablesIntact
        /\ pc \in {"save", "exit"}
        /\ pc = "exit" => (status = "ok" /\ mem.summary.written /\ mem.summary.text = lines)

\* a run whose import of the statistics dependency failed has ended normally
C19_Witness ==
    /\ script = AD /\ mem.scipy = "ImportError"
    /\ pc = "exit" /\ status = "ok"
    /\ mem.summary.written
    /\ NRows(mem.per_agent) > 1

----------------------------------------------------------------------------
(* C20: the denominator-policy label of the aggregate tables *)

\* the policy a denominator label names
PolicyOf(label) ==
    CASE label \in {"Observed agentic commits", "Observed human commits"} -> "Observed"
      [] label = "All PR commits (normalized)" -> "Normalized"
      [] OTHER -> "none"

\* the distinct commits of a project in a table on disk
ProjectCommits(f, project) ==
    IF disk[f].exists /\ {"sha", "full_name"} \subseteq disk[f].df.columns
    THEN {NormId(disk[f].df.rows[i]["sha"]) :
            i \in {j \in 1..NRows(disk[f].df) : disk[f].df.rows[j]["full_name"] = project}}
    ELSE {}

\* the label of a row of Human commits names the denominator of the row:
\* Observed for the analyzed commits of the project, Normalized for its candidates
HumanLabelTruthful(row) ==
    CASE PolicyOf(row["denominator"]) = "Observed" ->
             row["total_commits"] =
                 Cardinality(ProjectCommits(HUMAN_REFACTORING_COMMITS, row["full_name"]))
      [] PolicyOf(row["denominator"]) = "Normalized" ->
             row["total_commits"] = Cardinality(ProjectCommits(HUMAN_PR_COMMITS, row["full_name"]))
      [] OTHER -> FALSE

\* every row of the table carries a label; the rows of Human commits carry a truthful one
LabelledTable(t) ==
    /\ "denominator" \in t.columns
    /\ \A i \in 1..NRows(t) :
          /\ PolicyOf(t.rows[i]["denominator"]) # "none"
          /\ t.rows[i]["denominator"] # "Observed agentic commits" => HumanLabelTruthful(t.rows[i])

\* C20: every row of the per-agent and per-project summary tables carries a
\* denominator-policy label, and the label names the denominator of the row
C20_DenominatorLabels ==
    /\ (script = AD /\ pc \in {"human_norm", "per_project", "ref_types", "plots", "stats", "save"})
          => LabelledTable(mem.per_agent)
    /\ (script = AD /\ pc \in {"ref_types", "plots", "stats", "save"})
          => LabelledTable(mem.per_project)
    /\ (script = RC /\ pc = "tables") => LabelledTable(mem.proj_summary)

----------------------------------------------------------------------------
(* C21: one event row per detected transformation *)

\* the number of refactoring entries of the commits of a document that have
\* an identifier
IdentifiedRefactorings(doc) ==
    LET n == Len(doc.rows)
        cnt[i \in 0..n] ==
            IF i = 0 THEN 0
            ELSE cnt[i - 1] + (IF LacksIdentifier(doc.rows[i]) THEN 0
                               ELSE Len(EntryRefs(doc.rows[i])))
    IN cnt[n]

\* the builders, their tool output and the event table they write
BuilderEventTables ==
    {<<BB, RM_JSON_BASELINE, BASELINE_REFACT_OUT>>, <<BF, RM_JSON, REFACT_OUT>>}

\* C21: the event table a builder writes has exactly one row per refactoring
\* entry of the tool-output commits that have an identifier, also after the
\* enrichment with the metadata joined on sha
C21_OneRowPerEvent ==
    \A t \in BuilderEventTables :
        (script = t[1] /\ disk[t[3]].exists) =>
            NRows(disk[t[3]].df) = IdentifiedRefactorings(disk[t[2]].df)

----------------------------------------------------------------------------
(* C22: identifiers are normalized before they are compared *)

\* the normalized identifiers of the tool-output entries that carry refactorings
IdsWithRefactorings(doc) ==
    {NormId(doc.rows[i].sha1.v) :
        i \in {j \in 1..Len(doc.rows) :
                 ~LacksIdentifier(doc.rows[j]) /\ EntryRefs(doc.rows[j]) # <<>>}}

\* the Metadata Joiner of the Agent builder matches a metadata row with the
\* tool output of the same commit, whatever the letter case or the blanks
JoinerNormalizes ==
    (script = BF /\ disk[COMMITS_OUT].exists) =>
        \A i \in 1..NRows(disk[COMMITS_OUT].df) :
            NormId(disk[COMMITS_OUT].df.rows[i]["sha"]) \in IdsWithRefactorings(disk[RM_JSON].df)
                => disk[COMMITS_OUT].df.rows[i]["has_refactoring"]

\* the Completeness Reconciler adds no row for a candidate that the analyzed
\* table lists, whatever the letter case or the blanks
ReconcilerNormalizes ==
    (script = NH /\ disk[UPDATED_HUMAN].exists /\ disk[HUMAN_REFACTORING_COMMITS].exists) =>
        \A id \in {NormId(x) : x \in ColValues(disk[HUMAN_REFACTORING_COMMITS].df, "sha")} :
            Cardinality(RowsWithId(disk[UPDATED_HUMAN].df, id)) =
                Cardinality(RowsWithId(disk[HUMAN_REFACTORING_COMMITS].df, id))

\* C22: every script normalizes the commit identifiers (lower case, blanks
\* stripped) before it joins or tests membership, so identifiers that differ
\* only in letter case or surrounding blanks are the same commit to the
\* Metadata Joiner and to the Completeness Reconciler
C22_NormalizedBeforeJoin == JoinerNormalizes /\ ReconcilerNormalizes

----------------------------------------------------------------------------
(* C23: has_refactoring is derived from refactoring_count *)

\* the commit tables written by the pipeline
CommitTableFiles ==
    {COMMITS_OUT, BASELINE_COMMITS_OUT, HUMAN_REFACTORING_COMMITS, NORMALIZED_OUT, UPDATED_HUMAN}

\* on every row the count is a natural number and the flag says count > 0
FlagFollowsCount(t) ==
    \A i \in 1..NRows(t) :
        /\ t.rows[i]["refactoring_count"] \in Nat
        /\ t.rows[i]["has_refactoring"] <=> (t.rows[i]["refactoring_count"] > 0)

\* C23: on every row of every commit table on disk, refactoring_count is a
\* non-negative integer and has_refactoring is true exactly when it is positive
C23_FlagDerivedFromCount ==
    \A f \in CommitTableFiles :
        (disk[f].exists /\ {"refactoring_count", "has_refactoring"} \subseteq disk[f].df.columns)
            => FlagFollowsCount(disk[f].df)

----------------------------------------------------------------------------
(* C24: the type list of a commit record *)

\* the commit table and the event table a builder writes, with the sha column
\* of the event table
CommitAndEventTables ==
    {<<BF, COMMITS_OUT, REFACT_OUT, "sha">>,
     <<BB, BASELINE_COMMITS_OUT, BASELINE_REFACT_OUT, "commit_sha">>}

\* the type labels on the event rows of a commit
EventLabels(f, col, sha) ==
    IF disk[f].exists /\ col \in disk[f].df.columns
    THEN {disk[f].df.rows[i]["refactoring_type"] :
            i \in {j \in 1..NRows(disk[f].df) : disk[f].df.rows[j][col] = sha}} \ {NA, ""}
    ELSE {}

\* C24: a builder never fails on a refactoring entry without type label, and
\* the type list of every commit record is the ascending, duplicate-free list
\* of the type labels on the event rows of the commit
C24_TypeListIsEventLabels ==
    \A t \in CommitAndEventTables :
        script = t[1] =>
            /\ status # "TypeError"
            /\ disk[t[2]].exists =>
                  \A i \in 1..NRows(disk[t[2]].df) :
                      disk[t[2]].df.rows[i]["unique_types"] =
                          SortedTypes(EventLabels(t[3], t[4], disk[t[2]].df.rows[i]["sha"]))

----------------------------------------------------------------------------
(* C25: the Deduplicator *)

\* the rows of a sequence whose key did not occur earlier, in their order
FirstOccurrences(rows, key) ==
    FilterIdx(rows, LAMBDA i : ~\E j \in 1..(i - 1) : rows[j][key] = rows[i][key])

\* a Human builder has ended normally
HumanBuilt == script \in {BB, BH} /\ pc = "exit" /\ status = "ok"

\* C25: the dedup of the tool output by sha in the Human builders keeps the
\* first record of every sha in the input order, and the run reports the number
\* of records removed, which is the number of records minus the number kept
C25_KeepFirstAndReport ==
    HumanBuilt =>
        LET records == RmCommits(mem.rm_data)
        IN /\ mem.rm_df.rows = FirstOccurrences(records, "sha")
           /\ \E i \in 1..Len(lines) :
                 /\ lines[i].what = "deduped_removed"
                 /\ lines[i].num = Len(records) - NRows(mem.rm_df)

----------------------------------------------------------------------------
(* C26: the dedup of the analyzed Human table by (sha, pr_id) *)

\* the PRs under which the candidate table lists a commit
CandidatePrs(id) ==
    {disk[PR_COMMITS].df.rows[i]["pr_id"] :
        i \in {j \in 1..NRows(disk[PR_COMMITS].df) :
                 NormId(disk[PR_COMMITS].df.rows[j]["sha"]) = id}}

\* no two rows of the table share (sha, pr_id)
PairsDistinct(t) ==
    \A i, j \in 1..NRows(t) :
        (t.rows[i]["sha"] = t.rows[j]["sha"] /\ t.rows[i]["pr_id"] = t.rows[j]["pr_id"]) => i = j

\* C26: in the analyzed Human commit table no two rows share (sha, pr_id), and
\* a commit of the table has exactly one row for each PR under which the
\* candidate table lists it
C26_HumanDedupByCommitAndPr ==
    (script \in {BB, BH} /\ disk[PR_COMMITS].exists /\ "sha" \in disk[PR_COMMITS].df.columns) =>
        \A t \in AnalyzedHumanTables :
            /\ PairsDistinct(t)
            /\ \A id \in {t.rows[i]["sha"] : i \in 1..NRows(t)} :
                  /\ Cardinality(RowsWithId(t, id)) = Cardinality(CandidatePrs(id))
                  /\ {t.rows[i]["pr_id"] : i \in RowsWithId(t, id)} = CandidatePrs(id)

\* a Human build wrote an analyzed table in which a commit that the candidate
\* table lists twice under one PR (in two letter cases) has one row
C26_Witness ==
    /\ script \in {BB, BH} /\ pc = "exit" /\ status = "ok"
    /\ \E t \in AnalyzedHumanTables : \E id \in CandidateIds :
          /\ Cardinality(RowsWithId(t, id)) = 1
          /\ Cardinality({j \in 1..NRows(disk[PR_COMMITS].df) :
                             NormId(disk[PR_COMMITS].df.rows[j]["sha"]) = id}) = 2

----------------------------------------------------------------------------
(* C27: groups without observations in the comparative statistics *)

\* both tests of analyze_data.py ran and the Human group holds no commit
TestsRanWithoutHuman ==
    /\ script = AD /\ mem.scipy = "computed"
    /\ NRows(mem.combined) > 0
    /\ "Human" \notin ColValues(mem.combined, "agent")

\* no result of a pairwise test is in the log
NoPairwiseResult ==
    \A i \in 1..Len(lines) : lines[i].what = "mann_whitney_pairwise" => lines[i].num = 0

----------------------------------------------------------------------------
(* C28: refactoring rates stay between 0 and 100 percent *)

\* the aggregate tables of analyze_data.py and refactoring_per_commit.py
AggregateTables ==
    {mem.per_agent, mem.per_project, mem.proj_summary, mem.table_commits}

\* a rate in hundredths of a percent that lies between 0 and 100 percent
RateInRange(pct) == pct >= 0 /\ pct <= 10000

\* the row counts no more refactoring commits than commits
RowWithinTotal(r) ==
    /\ r.refactoring_commits <= r.total_commits
    /\ RateInRange(r.refactoring_rate)

\* the printed Human normalized rate counts no more commits with refactorings
\* than PR commits
NormLineWithinTotal(l) ==
    (l.what = "human_norm_rate" /\ l.den # 0) =>
        l.num <= l.den /\ RateInRange(l.pct)

\* C28: in every aggregate row (per agent, per agent and project) and in the
\* Human normalized rate, the number of refactoring commits never exceeds
\* total_commits, so every reported rate lies between 0 and 100 percent.
C28_RatesWithinBounds ==
    /\ \A t \in AggregateTables : \A i \in 1..NRows(t) : RowWithinTotal(t.rows[i])
    /\ \A i \in 1..Len(lines) : NormLineWithinTotal(lines[i])

\* the three parts of C28, one aggregate at a time
C28_PerAgentRows ==
    \A t \in {mem.per_agent, mem.table_commits} :
        \A i \in 1..NRows(t) : RowWithinTotal(t.rows[i])

C28_PerProjectRows ==
    \A t \in {mem.per_project, mem.proj_summary} :
        \A i \in 1..NRows(t) : RowWithinTotal(t.rows[i])

C28_NormalizedRate ==
    \A i \in 1..Len(lines) : NormLineWithinTotal(lines[i])

----------------------------------------------------------------------------
(* C29: the Completeness Reconciler only adds rows *)

\* the columns C29 speaks of; the type list is unique_types or refactoring_types
ReconciledCols ==
    {"sha", "pr_id", "refactoring_count", "has_refactoring", "unique_types",
     "refactoring_types"}

\* the analyzed rows are the first rows of the normalized table, in their
\* order and with their values in the columns of C29
AnalyzedRowsKept(analyzed, normalized) ==
    /\ NRows(analyzed) <= NRows(normalized)
    /\ \A i \in 1..NRows(analyzed) :
         \A c \in ReconciledCols \cap analyzed.columns :
             /\ c \in normalized.columns
             /\ normalized.rows[i][c] = analyzed.rows[i][c]

\* every row after the analyzed ones is a candidate that was not analyzed
AddedRowsAreMissingCandidates(candidates, analyzed, normalized) ==
    \A i \in (NRows(analyzed) + 1)..NRows(normalized) :
        /\ normalized.rows[i]["sha"] \in ColValues(candidates, "sha")
        /\ normalized.rows[i]["sha"] \notin ColValues(analyzed, "sha")

\* the normalized table lists the candidate commits and no other
ShasAreCandidates(candidates, normalized) ==
    ColValues(normalized, "sha") = ColValues(candidates, "sha")

\* a finished run of a reconciler: build_baseline_dataset.py reconciles the
\* tables it holds, normalize_human_refactoring_commits.py the ones it read
ReconcilerRan ==
    /\ script \in {BB, NH}
    /\ pc = "exit"
    /\ status = "ok"

AnalyzedOfRun == IF script = BB THEN mem.merged ELSE disk[HUMAN_REFACTORING_COMMITS].df
CandidatesOfRun == IF script = BB THEN mem.pr_df ELSE disk[PR_COMMITS].df
NormalizedOfRun == IF script = BB THEN disk[NORMALIZED_OUT].df ELSE disk[UPDATED_HUMAN].df

C29_RowsKept ==
    ReconcilerRan => AnalyzedRowsKept(AnalyzedOfRun, NormalizedOfRun)

C29_RowsAdded ==
    ReconcilerRan =>
        AddedRowsAreMissingCandidates(CandidatesOfRun, AnalyzedOfRun, NormalizedOfRun)

C29_SameShas ==
    ReconcilerRan => ShasAreCandidates(CandidatesOfRun, NormalizedOfRun)

\* C29: the Completeness Reconciler leaves the analyzed rows unchanged, first
\* and in their order, adds only rows of candidates that the analyzed table
\* lacks, and the shas of the normalized table are those of the candidate table
C29_ReconcilerOnlyAdds == C29_RowsKept /\ C29_RowsAdded /\ C29_SameShas

----------------------------------------------------------------------------
(* C30: the two producers of baseline_refactorings.parquet *)

\* the tool-output document both producers read
BaselineDocument == disk[RM_JSON_BASELINE].df

\* prepare_refactoring_dataset.py has passed its extraction of the baseline events
PrepareExtracted ==
    /\ script = PR
    /\ pc \in {"save", "summary"} \/ (pc = "exit" /\ status \in {"ok", "KeyError"})

\* build_baseline_dataset.py has passed its parse loop and written the events
BaselineParsed == script = BB /\ disk[BASELINE_REFACT_OUT].exists

\* extract_refactorings(..., "baseline") yields the rows of the parse loop
PrepareYieldsParseLoopRows ==
    PrepareExtracted => mem.df_baseline = RefDf(BaselineDocument.rows)

\* the parse loop yields the rows of extract_refactorings(..., "baseline")
ParseLoopYieldsPrepareRows ==
    BaselineParsed =>
        /\ ~PrepareRaises(BaselineDocument.rows)
        /\ disk[BASELINE_REFACT_OUT].df = extract_refactorings(BaselineDocument.rows)

\* extract_refactorings does not fail on a document that the parse loop reads
PrepareReadsEveryDocument ==
    (script = PR /\ pc = "exit" /\ status = "TypeError"
        /\ ~PrepareRaises(disk[RM_JSON].df.rows)) => FALSE

\* C30: prepare_refactoring_dataset.extract_refactorings(..., "baseline") and
\* the parse loop of build_baseline_dataset.py yield the same sequence of event
\* rows for the same tool-output document, whatever the document
C30_ProducersAgree ==
    /\ PrepareYieldsParseLoopRows
    /\ ParseLoopYieldsPrepareRows
    /\ PrepareReadsEveryDocument

\* the producers agree on documents whose entries all carry a lower-case,
\* unpadded identifier and a list of refactorings
WellFormedDocument(doc) ==
    \A i \in 1..Len(doc.rows) :
        /\ doc.rows[i].sha1.k = "str"
        /\ doc.rows[i].sha1.v # <<>>
        /\ NormId(doc.rows[i].sha1.v) = doc.rows[i].sha1.v
        /\ doc.rows[i].refactorings.k = "list"

C30_AgreeOnWellFormed ==
    WellFormedDocument(BaselineDocument) => C30_ProducersAgree

====
